---- MODULE Spec2Model ----
(***************************************************************************)
(* A model of the jax-js-mcmc HMC sampler: the chain runner of src/hmc.ts  *)
(* (hmc, runSingleChain, sampleMomentum, hamiltonian, computeKineticEnergy, *)
(* flattenTree), the leapfrog integrator of src/leapfrog.ts and the        *)
(* Metropolis helper acceptanceProbability.                                *)
(*                                                                         *)
(* Numbers.  JS numbers and float32 tensor elements are modelled as binary *)
(* floating point values m * 2^e with a significand of Precision bits,     *)
(* round-to-nearest-even after every operation, overflow to +/-Infinity,   *)
(* underflow to 0, and NaN.  A value is a record [k, m, e]:                *)
(*   k = "fin": the number m * 2^e, m odd or (m = 0 and e = 0);            *)
(*   k = "inf": +Infinity (m = 1) or -Infinity (m = -1);                   *)
(*   k = "nan": NaN.                                                       *)
(* The canonical form makes equality of values equality of records.        *)
(***************************************************************************)
EXTENDS Integers, Sequences, FiniteSets, TLC

\* Significand width of the modelled floating point format.
Precision == 12
\* Values of magnitude 2^ExpLimit and above overflow to Infinity, values
\* below 2^(-ExpLimit) underflow to 0.
ExpLimit == 64

NaN == [k |-> "nan", m |-> 0, e |-> 0]
PosInf == [k |-> "inf", m |-> 1, e |-> 0]
NegInf == [k |-> "inf", m |-> -1, e |-> 0]
Zero == [k |-> "fin", m |-> 0, e |-> 0]

Abs(n) == IF n < 0 THEN -n ELSE n
Sgn(n) == IF n < 0 THEN -1 ELSE IF n > 0 THEN 1 ELSE 0
MinInt(a, b) == IF a <= b THEN a ELSE b
MaxInt(a, b) == IF a >= b THEN a ELSE b

\* Number of bits of 0 <= n < 16 (0 for n = 0).
BitLen4(n) ==
    IF n < 4 THEN (IF n < 2 THEN n ELSE 2) ELSE (IF n < 8 THEN 3 ELSE 4)

\* Number of bits of 0 <= n < 2^16.
BitLen16(n) ==
    IF n < 256
    THEN (IF n < 16 THEN BitLen4(n) ELSE 4 + BitLen4(n \div 16))
    ELSE (IF n < 4096 THEN 8 + BitLen4(n \div 256) ELSE 12 + BitLen4(n \div 4096))

\* Number of bits of n >= 0 (0 for n = 0).
BitLen(n) == IF n < 65536 THEN BitLen16(n) ELSE 16 + BitLen16(n \div 65536)

\* Number of trailing zero bits of 0 < n < 16.
TrailingZeros4(n) ==
    IF n % 2 = 1 THEN 0 ELSE IF n % 4 = 2 THEN 1 ELSE IF n % 8 = 4 THEN 2 ELSE 3

\* Number of trailing zero bits of n > 0 with a one among its low 16 bits.
TrailingZeros16(n) ==
    IF n % 256 # 0
    THEN (IF n % 16 # 0 THEN TrailingZeros4(n % 16)
          ELSE 4 + TrailingZeros4((n \div 16) % 16))
    ELSE (IF n % 4096 # 0 THEN 8 + TrailingZeros4((n \div 256) % 16)
          ELSE 12 + TrailingZeros4((n \div 4096) % 16))

\* Number of trailing zero bits of n > 0.
TrailingZeros(n) ==
    IF n % 65536 # 0 THEN TrailingZeros16(n) ELSE 16 + TrailingZeros16(n \div 65536)

\* a / 2^s rounded to the nearest integer, ties to even.
RoundShift(a, s) ==
    IF s = 0 THEN a
    ELSE IF 2 * (a % (2^s)) > 2^s \/ (2 * (a % (2^s)) = 2^s /\ (a \div (2^s)) % 2 = 1)
    THEN (a \div (2^s)) + 1
    ELSE a \div (2^s)

\* sg * mm * 2^ee with mm odd: the canonical record, or overflow, or underflow.
FlRange(sg, mm, ee) ==
    IF ee + BitLen(mm) > ExpLimit THEN [k |-> "inf", m |-> sg, e |-> 0]
    ELSE IF ee + BitLen(mm) <= -ExpLimit THEN Zero
    ELSE [k |-> "fin", m |-> sg * mm, e |-> ee]

FlStrip(sg, q, e, t) == FlRange(sg, q \div (2^t), e + t)
FlPack(sg, q, e) == FlStrip(sg, q, e, TrailingZeros(q))
FlShift(sg, a, e, s) == FlPack(sg, RoundShift(a, s), e + s)

\* The floating point value nearest to m * 2^e (ties to even).
Fl(m, e) ==
    IF m = 0 THEN Zero
    ELSE FlShift(Sgn(m), Abs(m), e, MaxInt(BitLen(Abs(m)) - Precision, 0))

FInt(n) == Fl(n, 0)

IsNaN(x) == x.k = "nan"
\* isFinite / Number.isFinite
IsFinite(x) == x.k = "fin"
\* The binary exponent of the leading bit of a finite non-zero x, plus one.
Top(x) == x.e + BitLen(Abs(x.m))

FNeg(x) == [x EXCEPT !.m = -x.m]

\* x + y for finite non-zero x and y with binary tops tx and ty.
AddAligned(x, y, tx, ty) ==
    IF tx - ty > Precision + 1 THEN x
    ELSE IF ty - tx > Precision + 1 THEN y
    ELSE Fl(x.m * 2^(x.e - MinInt(x.e, y.e)) + y.m * 2^(y.e - MinInt(x.e, y.e)),
            MinInt(x.e, y.e))

\* x + y
FAdd(x, y) ==
    IF x.k = "nan" \/ y.k = "nan" THEN NaN
    ELSE IF x.k = "inf" THEN (IF y.k = "inf" /\ y.m # x.m THEN NaN ELSE x)
    ELSE IF y.k = "inf" THEN y
    ELSE IF x.m = 0 THEN y
    ELSE IF y.m = 0 THEN x
    ELSE AddAligned(x, y, Top(x), Top(y))

\* x - y
FSub(x, y) == FAdd(x, FNeg(y))

\* x * y
FMul(x, y) ==
    IF x.k = "nan" \/ y.k = "nan" THEN NaN
    ELSE IF x.k = "inf" \/ y.k = "inf"
    THEN (IF x.m = 0 \/ y.m = 0 THEN NaN
          ELSE IF Sgn(x.m) = Sgn(y.m) THEN PosInf ELSE NegInf)
    ELSE Fl(x.m * y.m, x.e + y.e)

\* sg * a / b * 2^e for a, b > 0, the quotient taken to s more bits; a sticky
\* bit keeps the rounding of an inexact quotient right.
DivScaled(sg, a, b, e, s) ==
    Fl(sg * (2 * ((a * 2^s) \div b) + (IF (a * 2^s) % b = 0 THEN 0 ELSE 1)), e - s - 1)

\* x / y
FDiv(x, y) ==
    IF x.k = "nan" \/ y.k = "nan" THEN NaN
    ELSE IF x.k = "inf"
    THEN (IF y.k = "inf" THEN NaN
          ELSE IF (x.m > 0) = (y.m >= 0) THEN PosInf ELSE NegInf)
    ELSE IF y.k = "inf" THEN Zero
    ELSE IF y.m = 0
    THEN (IF x.m = 0 THEN NaN ELSE IF x.m > 0 THEN PosInf ELSE NegInf)
    ELSE IF x.m = 0 THEN Zero
    ELSE DivScaled(Sgn(x.m) * Sgn(y.m), Abs(x.m), Abs(y.m), x.e - y.e,
                   Precision + 2 + BitLen(Abs(y.m)) - BitLen(Abs(x.m)))

\* -1, 0, 1 as x < y, x = y, x > y, for finite non-zero x, y of one sign.
CmpAligned(x, y, tx, ty) ==
    IF tx # ty THEN Sgn(x.m) * Sgn(tx - ty)
    ELSE Sgn(x.m * 2^(x.e - MinInt(x.e, y.e)) - y.m * 2^(y.e - MinInt(x.e, y.e)))

\* -1, 0, 1 as x < y, x = y, x > y, for x and y not NaN.
FCmp(x, y) ==
    IF x.k = "inf" THEN (IF y.k = "inf" THEN Sgn(x.m - y.m) ELSE x.m)
    ELSE IF y.k = "inf" THEN -y.m
    ELSE IF Sgn(x.m) # Sgn(y.m) THEN Sgn(Sgn(x.m) - Sgn(y.m))
    ELSE IF x.m = 0 THEN 0
    ELSE CmpAligned(x, y, Top(x), Top(y))

\* x < y, x <= y: false when either is NaN.
FLt(x, y) == ~IsNaN(x) /\ ~IsNaN(y) /\ FCmp(x, y) < 0
FLe(x, y) == ~IsNaN(x) /\ ~IsNaN(y) /\ FCmp(x, y) <= 0

\* Math.min, Math.max: NaN when either argument is NaN.
MathMin(x, y) == IF IsNaN(x) \/ IsNaN(y) THEN NaN ELSE IF FCmp(x, y) <= 0 THEN x ELSE y
MathMax(x, y) == IF IsNaN(x) \/ IsNaN(y) THEN NaN ELSE IF FCmp(x, y) >= 0 THEN x ELSE y

\* The decimal literal n/d of the source, rounded as the parser rounds it.
Ratio(n, d) == FDiv(FInt(n), FInt(d))
One == [k |-> "fin", m |-> 1, e |-> 0]
Half == [k |-> "fin", m |-> 1, e |-> -1]

\* floor(x) as an integer, for a finite x of magnitude below 2^30.
FloorInt(x) ==
    IF x.e >= 0 THEN x.m * 2^(x.e)
    ELSE IF -x.e > 30 THEN (IF x.m < 0 THEN -1 ELSE 0)
    ELSE IF x.m >= 0 THEN x.m \div (2^(-x.e))
    ELSE IF Abs(x.m) % (2^(-x.e)) = 0 THEN -(Abs(x.m) \div (2^(-x.e)))
    ELSE -(Abs(x.m) \div (2^(-x.e))) - 1

\* 2^(j/16) and log2(1 + j/16) in units of 2^-12, j = 0..15.
Exp2Table == <<4096, 4277, 4467, 4664, 4871, 5087, 5312, 5547,
               5793, 6049, 6317, 6597, 6889, 7194, 7512, 7845>>
Log2Table == <<0, 358, 696, 1016, 1319, 1607, 1882, 2145,
               2396, 2637, 2869, 3092, 3307, 3514, 3715, 3908>>
\* log2(e) and ln(2), to 13 bits.
Log2E == [k |-> "fin", m |-> 5909, e |-> -12]
Ln2 == [k |-> "fin", m |-> 2839, e |-> -12]
Sixteen == [k |-> "fin", m |-> 1, e |-> 4]

\* 2^y for a finite y of magnitude below 2^10 with floor n: the fractional
\* part of y is taken to four bits.
Exp2Floor(y, n) ==
    Fl(Exp2Table[MinInt(MaxInt(FloorInt(FMul(FSub(y, FInt(n)), Sixteen)), 0), 15) + 1],
       n - 12)

Exp2(y, positive) ==
    IF y.k = "inf" \/ Top(y) > 10
    THEN (IF positive THEN PosInf ELSE Zero)
    ELSE Exp2Floor(y, FloorInt(y))

\* Math.exp: 2^(x * log2 e), a monotone step function with exp(0) = 1.
MathExp(x) ==
    IF x.k = "nan" THEN NaN
    ELSE IF x.k = "inf" THEN (IF x.m > 0 THEN PosInf ELSE Zero)
    ELSE IF x.m = 0 THEN One
    ELSE Exp2(FMul(x, Log2E), x.m > 0)

\* ln of m * 2^e, m > 0 of b bits: ln 2 * log2, the significand taken to
\* four bits.
LogBits(m, e, b) ==
    FMul(Fl((e + b - 1) * 4096 + Log2Table[((m * 16) \div (2^(b - 1))) - 15], -12), Ln2)

\* Math.log: NaN below 0, -Infinity at 0; a monotone step function with
\* log(1) = 0.
MathLog(x) ==
    IF x.k = "nan" THEN NaN
    ELSE IF x.m < 0 THEN NaN
    ELSE IF x.k = "inf" THEN PosInf
    ELSE IF x.m = 0 THEN NegInf
    ELSE LogBits(x.m, x.e, BitLen(x.m))

\* floor(sqrt(n)) for 0 <= n < 2^30, by bisection on lo <= sqrt(n) < hi.
RECURSIVE ISqrt(_, _, _)
ISqrt(n, lo, hi) ==
    IF hi - lo <= 1 THEN lo
    ELSE IF ((lo + hi) \div 2) * ((lo + hi) \div 2) <= n
    THEN ISqrt(n, (lo + hi) \div 2, hi)
    ELSE ISqrt(n, lo, (lo + hi) \div 2)

\* sqrt(n) * 2^e from r = floor(sqrt(n)), with a sticky bit.
SqrtRoot(n, r, e) == Fl(2 * r + (IF r * r = n THEN 0 ELSE 1), e - 1)
SqrtScaled(n, e) == SqrtRoot(n, ISqrt(n, 0, 32768), e)
\* sqrt(m * 2^e): m is shifted by s (e - s even) to 2 * Precision + 1 bits or more.
SqrtShift(m, e, s) ==
    IF (e - s) % 2 = 0 THEN SqrtScaled(m * 2^s, (e - s) \div 2)
    ELSE SqrtScaled(m * 2^(s - 1), (e - s + 1) \div 2)

\* Math.sqrt / np.sqrt, correctly rounded.
MathSqrt(x) ==
    IF x.k = "nan" THEN NaN
    ELSE IF x.m < 0 THEN NaN
    ELSE IF x.k = "inf" THEN PosInf
    ELSE IF x.m = 0 THEN Zero
    ELSE SqrtShift(x.m, x.e, 2 * Precision + 2 - BitLen(x.m))

\* Math.pow(x, y) for x > 0, as exp(y * log x); pow(1, y) = 1.
MathPow(x, y) == MathExp(FMul(y, MathLog(x)))

(***************************************************************************)
(* PRNG keys.  A key is the path of splits that produced it from the seed: *)
(* random.split(key, n) yields n distinct children, and a draw is a fixed  *)
(* function of the key alone.                                              *)
(***************************************************************************)
\* random.key(seed)
RandomKey(seed) == <<seed>>

\* random.split(key, n), with extractKeys slicing out the i-th row.
RandomSplit(key, n) == [i \in 1..n |-> Append(key, i)]

\* The bits of a key that the draws below read.
RECURSIVE KeyBits(_)
KeyBits(key) ==
    IF key = <<>> THEN 1
    ELSE (KeyBits(SubSeq(key, 1, Len(key) - 1)) * 37 + key[Len(key)] * 11 + 5) % 101

\* The values a uniform draw in [0, 1) and a standard normal draw can take.
UniformValues == <<Zero, Fl(1, -3), Fl(3, -3), Fl(5, -3), Fl(7, -3)>>
NormalValues == <<FInt(-2), FInt(-1), Fl(-1, -1), Zero, Fl(1, -1), FInt(1), FInt(2)>>

\* random.uniform(key)
RandomUniform(key) == UniformValues[(KeyBits(key) % Len(UniformValues)) + 1]

\* random.normal(key, [n])
RandomNormal(key, n) ==
    [j \in 1..n |-> NormalValues[((KeyBits(key) + 3 * j) % Len(NormalValues)) + 1]]

(***************************************************************************)
(* Parameter trees.  A tree is the sequence of its leaves in tree.flatten  *)
(* order, each leaf a record [name, v] with v a 1-d tensor (a sequence of  *)
(* numbers).  An optional tree (massMatrix?: T) is [def, v].               *)
(***************************************************************************)
Undefined == [def |-> FALSE, v |-> <<>>]
Defined(t) == [def |-> TRUE, v |-> t]

\* tree.map over one, two and three trees of the same structure.
TreeMap1(Op(_), t) ==
    [i \in 1..Len(t) |->
        [name |-> t[i].name, v |-> [j \in 1..Len(t[i].v) |-> Op(t[i].v[j])]]]
TreeMap2(Op(_, _), t, u) ==
    [i \in 1..Len(t) |->
        [name |-> t[i].name,
         v |-> [j \in 1..Len(t[i].v) |-> Op(t[i].v[j], u[i].v[j])]]]
TreeMap3(Op(_, _, _), t, u, w) ==
    [i \in 1..Len(t) |->
        [name |-> t[i].name,
         v |-> [j \in 1..Len(t[i].v) |-> Op(t[i].v[j], u[i].v[j], w[i].v[j])]]]

\* leaf.sum(): the elements of a tensor added up.
RECURSIVE SumSeq(_)
SumSeq(v) ==
    IF v = <<>> THEN Zero
    ELSE FAdd(SumSeq(SubSeq(v, 1, Len(v) - 1)), v[Len(v)])

\* The sum of a sequence of integers.
RECURSIVE SumInts(_)
SumInts(v) ==
    IF v = <<>> THEN 0
    ELSE SumInts(SubSeq(v, 1, Len(v) - 1)) + v[Len(v)]

\* np.concatenate of 1-d tensors.
RECURSIVE Concat(_)
Concat(vs) ==
    IF vs = <<>> THEN <<>>
    ELSE Concat(SubSeq(vs, 1, Len(vs) - 1)) \o vs[Len(vs)]

\* Whether some element of the tree is NaN.
TreeHasNaN(t) == \E i \in 1..Len(t) : \E j \in 1..Len(t[i].v) : IsNaN(t[i].v[j])

\* The structure of a tree: its leaf names and leaf shapes.
TreeStructure(t) == [i \in 1..Len(t) |-> [name |-> t[i].name, shape |-> <<Len(t[i].v)>>]]

(***************************************************************************)
(* Arrays (np.Array results): [kind |-> "array", shape, data].             *)
(***************************************************************************)
\* Flatten a tree to a single 1-d array.
flattenTree(params) ==
    LET flat == Concat([i \in 1..Len(params) |-> params[i].v])
    IN  [kind |-> "array", shape |-> <<Len(flat)>>, data |-> flat]

\* np.stack of a non-empty list of arrays of one shape.
NpStack(arrays) ==
    [kind |-> "array",
     shape |-> <<Len(arrays)>> \o arrays[1].shape,
     data |-> [i \in 1..Len(arrays) |-> arrays[i].data]]

(***************************************************************************)
(* The user's log density and its gradient (grad(logProb)).  Each target   *)
(* is a sum over all elements x of a term:                                 *)
(*   "normal":  -x^2/2 everywhere;                                         *)
(*   "bounded": -x^2/2 for x >= 0 and -Infinity (gradient 0) outside the   *)
(*              support, as a where(x < 0, -inf, ...) constraint gives;    *)
(*   "domain":  -x^2/2 for x <= DomainEdge and NaN (gradient NaN) beyond   *)
(*              it, as a log or sqrt of a negative argument gives.         *)
(***************************************************************************)
Targets == {"normal", "bounded", "domain"}
DomainEdge == One

LogProbTerm(target, x) ==
    IF IsNaN(x) THEN NaN
    ELSE IF target = "bounded" /\ FLt(x, Zero) THEN NegInf
    ELSE IF target = "domain" /\ FLt(DomainEdge, x) THEN NaN
    ELSE FMul(FMul(x, x), Fl(-1, -1))

GradTerm(target, x) ==
    IF IsNaN(x) THEN NaN
    ELSE IF target = "bounded" /\ FLt(x, Zero) THEN Zero
    ELSE IF target = "domain" /\ FLt(DomainEdge, x) THEN NaN
    ELSE FNeg(x)

\* logProb(params): a scalar.
LogProb(target, params) ==
    SumSeq(Concat([i \in 1..Len(params) |->
        [j \in 1..Len(params[i].v) |-> LogProbTerm(target, params[i].v[j])]]))

\* gradLogProb(params): a tree of the structure of params.
GradLogProb(target, params) == TreeMap1(LAMBDA x : GradTerm(target, x), params)

(***************************************************************************)
(* src/leapfrog.ts                                                         *)
(***************************************************************************)
\* A faulty position update: the momentum is multiplied by the mass.
updatePositionByMass(q, p, stepSize, massMatrix) ==
    IF ~massMatrix.def
    THEN TreeMap2(LAMBDA qLeaf, pLeaf : FAdd(qLeaf, FMul(pLeaf, stepSize)), q, p)
    ELSE TreeMap3(LAMBDA qLeaf, pLeaf, mLeaf :
                      FAdd(qLeaf, FMul(FMul(pLeaf, mLeaf), stepSize)),
                  q, p, massMatrix.v)

\* q + eps * p / M (identity mass when massMatrix is undefined)
updatePosition(q, p, stepSize, massMatrix) ==
    IF ~massMatrix.def
    THEN TreeMap2(LAMBDA qLeaf, pLeaf : FAdd(qLeaf, FMul(pLeaf, stepSize)), q, p)
    ELSE TreeMap3(LAMBDA qLeaf, pLeaf, mLeaf :
                      FAdd(qLeaf, FMul(FDiv(pLeaf, mLeaf), stepSize)),
                  q, p, massMatrix.v)

\* A faulty momentum update: (p + grad) * eps.
updateMomentumScaled(p, grad, stepSize) ==
    TreeMap2(LAMBDA pLeaf, gradLeaf : FMul(FAdd(pLeaf, gradLeaf), stepSize), p, grad)

\* p + eps * grad
updateMomentum(p, grad, stepSize) ==
    TreeMap2(LAMBDA pLeaf, gradLeaf : FAdd(pLeaf, FMul(gradLeaf, stepSize)), p, grad)

\* A faulty momentum step: half a step in every round.
momentumStepSizeHalf(i, numSteps, stepSize) == FMul(stepSize, Half)

\* A faulty momentum step: a full step in the last round too.
momentumStepSizeFull(i, numSteps, stepSize) == stepSize

\* The momentum step of round i (0-based): half a step in the last round.
momentumStepSize(i, numSteps, stepSize) ==
    IF i = numSteps - 1 THEN FMul(stepSize, Half) ELSE stepSize

\* The main loop from round i on; evals lists the positions at which the
\* gradient has been evaluated so far.
RECURSIVE LeapfrogLoop(_, _, _, _, _, _, _, _)
LeapfrogLoop(q, p, i, target, stepSize, numSteps, massMatrix, evals) ==
    IF i >= numSteps THEN [q |-> q, p |-> p, evals |-> evals]
    ELSE LET q1 == updatePosition(q, p, stepSize, massMatrix)
             gradCurrent == GradLogProb(target, q1)
             p1 == updateMomentum(p, gradCurrent, momentumStepSize(i, numSteps, stepSize))
         IN  LeapfrogLoop(q1, p1, i + 1, target, stepSize, numSteps, massMatrix,
                          Append(evals, q1))

leapfrog(position, momentum, target, stepSize, numSteps, massMatrix) ==
    LET gradInitial == GradLogProb(target, position)
        p == updateMomentum(momentum, gradInitial, FMul(stepSize, Half))
    IN  LeapfrogLoop(position, p, 0, target, stepSize, numSteps, massMatrix,
                     <<position>>)

(***************************************************************************)
(* src/metropolis.ts                                                       *)
(***************************************************************************)
\* A faulty acceptanceProbability: exp(deltaH) in place of exp(-deltaH).
acceptanceProbabilityOfNegated(deltaHamiltonian) ==
    IF ~IsFinite(deltaHamiltonian) THEN Zero
    ELSE IF FLe(One, MathExp(deltaHamiltonian)) THEN One
    ELSE MathExp(deltaHamiltonian)

acceptanceProbability(deltaHamiltonian) ==
    IF ~IsFinite(deltaHamiltonian) THEN Zero
    ELSE IF FLe(deltaHamiltonian, Zero) THEN One
    ELSE LET prob == MathExp(FNeg(deltaHamiltonian))
         IN  IF FLe(One, prob) THEN One ELSE prob

(***************************************************************************)
(* src/hmc.ts: the helpers of runSingleChain                               *)
(***************************************************************************)
\* const [momentumKey, acceptKey, keyNext] = random.split(key, 3)
momentumKey(key) == RandomSplit(key, 3)[1]

\* A faulty choice of key: the acceptance draw made with the momentum key.
acceptKeyReused(key) == RandomSplit(key, 3)[1]

acceptKey(key) == RandomSplit(key, 3)[2]
keyNext(key) == RandomSplit(key, 3)[3]

\* The keys consumed by sampleMomentum: key by its split, each extracted key
\* by the draw of its leaf.
MomentumKeyUses(params, key) ==
    <<[key |-> key, op |-> "split"]>>
    \o [i \in 1..Len(params) |-> [key |-> RandomSplit(key, Len(params))[i], op |-> "normal"]]

\* The keys consumed by one iteration of runSingleChain, in order.
IterationKeyUses(params, key) ==
    <<[key |-> key, op |-> "split"]>>
    \o MomentumKeyUses(params, momentumKey(key))
    \o <<[key |-> acceptKey(key), op |-> "uniform"]>>

\* Momentum from N(0, massMatrix) or N(0, I): one key per leaf.
sampleMomentum(params, key, massMatrix) ==
    LET extractedKeys == RandomSplit(key, Len(params))
        z == [i \in 1..Len(params) |->
                 [name |-> params[i].name,
                  v |-> RandomNormal(extractedKeys[i], Len(params[i].v))]]
    IN  IF ~massMatrix.def THEN z
        ELSE TreeMap2(LAMBDA n, m : FMul(n, MathSqrt(m)), z, massMatrix.v)

\* The running total over the leaves, from leaf 1 to leaf n.
RECURSIVE KineticTotal(_, _, _)
KineticTotal(momentum, massMatrix, n) ==
    IF n = 0 THEN Zero
    ELSE LET p == momentum[n].v
             sq == IF ~massMatrix.def
                   THEN [j \in 1..Len(p) |-> FMul(p[j], p[j])]
                   ELSE [j \in 1..Len(p) |->
                            FDiv(FMul(p[j], p[j]), massMatrix.v[n].v[j])]
         IN  FAdd(KineticTotal(momentum, massMatrix, n - 1), SumSeq(sq))

\* K = 0.5 * sum(p^2 / M), or 0.5 * sum(p^2) with no mass matrix.
computeKineticEnergy(momentum, massMatrix) ==
    FMul(KineticTotal(momentum, massMatrix, Len(momentum)), Half)

\* H = U(q) + K(p), U = -logProb(q).
hamiltonian(position, momentum, target, massMatrix) ==
    FAdd(FMul(LogProb(target, position), FInt(-1)),
         computeKineticEnergy(momentum, massMatrix))

\* The constants of the dual averaging of runSingleChain.
gamma == Ratio(5, 100)
t0 == 10
kappa == Ratio(75, 100)
StepMin == Ratio(1, 10000)
StepMaxWarmup == Ratio(5, 10)
MassJitter == Ratio(1, 100000)

\* Math.max(1e-4, Math.min(0.5, stepSize))
ClampStep(stepSize) == MathMax(StepMin, MathMin(StepMaxWarmup, stepSize))

\* Math.min(1.0, Math.exp(-deltaH))
AcceptProb(deltaH) == MathMin(One, MathExp(FNeg(deltaH)))

\* A faulty test: !(acceptProb <= u), which a NaN passes.
AcceptedUnlessBelow(u, acceptProb) == ~FLe(acceptProb, u)

\* u < acceptProb
Accepted(u, acceptProb) == FLt(u, acceptProb)

\* A faulty count: acceptances during warmup are counted too.
CountAcceptedAlways(numAccepted, accepted, isWarmup) ==
    IF accepted THEN numAccepted + 1 ELSE numAccepted

\* if (accepted) numAccepted++ after warmup only
CountAccepted(numAccepted, accepted, isWarmup) ==
    IF accepted /\ ~isWarmup THEN numAccepted + 1 ELSE numAccepted

\* The step size adaptation of one warmup iteration (iter is 0-based): the
\* running sum of the errors, the log step size, its weight eta and its
\* weighted average are computed in this order.
DualAverageAvg(c, hSum, logStepSize, eta) ==
    [hSum |-> hSum, logStepSize |-> logStepSize,
     logStepSizeAvg |->
         FAdd(FMul(eta, logStepSize), FMul(FSub(One, eta), c.logStepSizeAvg)),
     stepSize |-> ClampStep(MathExp(logStepSize))]

DualAverageLog(c, iteration, hSum) ==
    DualAverageAvg(c, hSum,
        FSub(c.mu, FMul(FDiv(MathSqrt(FInt(iteration)), gamma),
                        FDiv(hSum, FInt(iteration + t0)))),
        MathPow(FInt(iteration), FNeg(kappa)))

\* A faulty update: the acceptance probability is used as observed.
DualAverageStepUnsafe(c, o, iter, acceptProb) ==
    DualAverageLog(c, iter + 1,
        FAdd(c.hSum, FSub(o.targetAcceptRate, acceptProb)))

DualAverageStep(c, o, iter, acceptProb) ==
    DualAverageLog(c, iter + 1,
        FAdd(c.hSum, FSub(o.targetAcceptRate,
                          IF IsFinite(acceptProb) THEN acceptProb ELSE Zero)))

\* Welford's update with the position held after the accept/reject step:
\* delta, the new mean, delta2 and the new M2 are computed in this order.
WelfordM2(c, currentParams, count, delta, mean) ==
    [count |-> count, mean |-> Defined(mean),
     m2 |-> Defined(TreeMap3(LAMBDA m, d, d2 : FAdd(m, FMul(d, d2)),
                             c.welfordM2.v, delta,
                             TreeMap2(LAMBDA sample, mn : FSub(sample, mn),
                                      currentParams, mean)))]

WelfordMean(c, currentParams, count, delta) ==
    WelfordM2(c, currentParams, count, delta,
              TreeMap2(LAMBDA mn, d : FAdd(mn, FDiv(d, FInt(count))),
                       c.welfordMean.v, delta))

WelfordStep(c, currentParams) ==
    IF ~c.welfordMean.def
    THEN [count |-> c.welfordCount + 1,
          mean |-> Defined(TreeMap1(LAMBDA leaf : FMul(leaf, One), currentParams)),
          m2 |-> Defined(TreeMap1(LAMBDA leaf : Zero, currentParams))]
    ELSE WelfordMean(c, currentParams, c.welfordCount + 1,
                     TreeMap2(LAMBDA sample, mn : FSub(sample, mn),
                              currentParams, c.welfordMean.v))

\* A faulty finalization: the number of observed positions is not tested.
FinalMassMatrixAnyCount(adaptMassMatrix, welfordCount, welfordM2, massMatrix) ==
    IF adaptMassMatrix /\ welfordM2.def
    THEN Defined(TreeMap1(LAMBDA m2 : FAdd(FDiv(m2, FInt(welfordCount - 1)), MassJitter),
                          welfordM2.v))
    ELSE massMatrix

\* The mass matrix finalized at the last warmup iteration.
FinalMassMatrix(adaptMassMatrix, welfordCount, welfordM2, massMatrix) ==
    IF adaptMassMatrix /\ welfordCount > 1 /\ welfordM2.def
    THEN Defined(TreeMap1(LAMBDA m2 : FAdd(FDiv(m2, FInt(welfordCount - 1)), MassJitter),
                          welfordM2.v))
    ELSE massMatrix

\* A faulty collection: the position is recorded during warmup too.
CollectSampleAlways(samples, currentParams, isWarmup) ==
    Append(samples, flattenTree(currentParams))

\* Positions are collected after warmup only.
CollectSample(samples, currentParams, isWarmup) ==
    IF ~isWarmup THEN Append(samples, flattenTree(currentParams)) ELSE samples

\* The local variables of runSingleChain before its loop.  trace is the
\* history of the transitions run so far, kept for the properties.
InitChain(o, key) ==
    [pc |-> "loop", iter |-> 0, key |-> key,
     currentParams |-> o.initialParams,
     stepSize |-> o.initialStepSize,
     logStepSize |-> MathLog(o.initialStepSize),
     logStepSizeAvg |-> MathLog(o.initialStepSize),
     hSum |-> Zero,
     mu |-> MathLog(o.initialStepSize),
     massMatrix |-> Undefined,
     welfordCount |-> 0, welfordMean |-> Undefined, welfordM2 |-> Undefined,
     samples |-> <<>>, numAccepted |-> 0,
     trace |-> <<>>]

\* The proposal of one transition: the momentum is drawn, the current energy
\* computed, the trajectory integrated and the proposed energy computed.
\* gradNaN records whether a gradient evaluated on the trajectory held a NaN.
ProposalEnergy(c, o, currentH, lf, proposedH) ==
    [currentH |-> currentH, proposed |-> lf.q, proposedH |-> proposedH,
     deltaH |-> FSub(proposedH, currentH),
     gradNaN |-> \E k \in 1..Len(lf.evals) :
                     TreeHasNaN(GradLogProb(o.target, lf.evals[k]))]

ProposalPath(c, o, currentH, lf) ==
    ProposalEnergy(c, o, currentH, lf, hamiltonian(lf.q, lf.p, o.target, c.massMatrix))

ProposalFrom(c, o, momentum) ==
    ProposalPath(c, o,
        hamiltonian(c.currentParams, momentum, o.target, c.massMatrix),
        leapfrog(c.currentParams, momentum, o.target, c.stepSize,
                 o.numLeapfrogSteps, c.massMatrix))

Proposal(c, o) ==
    ProposalFrom(c, o,
        sampleMomentum(c.currentParams, momentumKey(c.key), c.massMatrix))

\* The accept/reject step: the position held after it.
MetropolisStep(c, prop, acceptProb, u, accepted) ==
    [acceptProb |-> acceptProb, u |-> u, accepted |-> accepted,
     after |-> IF accepted THEN prop.proposed ELSE c.currentParams]

MetropolisDraw(c, prop, acceptProb, u) ==
    MetropolisStep(c, prop, acceptProb, u, Accepted(u, acceptProb))

Metropolis(c, prop) ==
    MetropolisDraw(c, prop, AcceptProb(prop.deltaH),
                   RandomUniform(acceptKey(c.key)))

\* A faulty finalization: the last iterate exp(logStepSize) is kept.
WarmupEndLastIterate(c, o, da, wf) ==
    [hSum |-> da.hSum, logStepSize |-> da.logStepSize,
     logStepSizeAvg |-> da.logStepSizeAvg,
     stepSize |-> da.stepSize,
     welfordCount |-> wf.count, welfordMean |-> wf.mean, welfordM2 |-> wf.m2,
     massMatrix |-> IF c.iter = o.numWarmup - 1
                    THEN FinalMassMatrix(o.adaptMassMatrix, wf.count, wf.m2, c.massMatrix)
                    ELSE c.massMatrix]

\* The adaptation state after a warmup iteration; at the last one the step
\* size becomes the clamped averaged one and the mass matrix is finalized.
WarmupEnd(c, o, da, wf) ==
    [hSum |-> da.hSum, logStepSize |-> da.logStepSize,
     logStepSizeAvg |-> da.logStepSizeAvg,
     stepSize |-> IF c.iter = o.numWarmup - 1
                  THEN ClampStep(MathExp(da.logStepSizeAvg))
                  ELSE da.stepSize,
     welfordCount |-> wf.count, welfordMean |-> wf.mean, welfordM2 |-> wf.m2,
     massMatrix |-> IF c.iter = o.numWarmup - 1
                    THEN FinalMassMatrix(o.adaptMassMatrix, wf.count, wf.m2, c.massMatrix)
                    ELSE c.massMatrix]

\* The adaptation state after an iteration: unchanged after warmup.
WarmupUpdate(c, o, currentParams, acceptProb) ==
    IF c.iter < o.numWarmup
    THEN WarmupEnd(c, o, DualAverageStep(c, o, c.iter, acceptProb),
                   IF o.adaptMassMatrix
                   THEN WelfordStep(c, currentParams)
                   ELSE [count |-> c.welfordCount, mean |-> c.welfordMean,
                         m2 |-> c.welfordM2])
    ELSE [hSum |-> c.hSum, logStepSize |-> c.logStepSize,
          logStepSizeAvg |-> c.logStepSizeAvg, stepSize |-> c.stepSize,
          welfordCount |-> c.welfordCount, welfordMean |-> c.welfordMean,
          welfordM2 |-> c.welfordM2, massMatrix |-> c.massMatrix]

\* The locals of runSingleChain at the end of an iteration.
LoopEnd(c, o, prop, met, ad) ==
    [pc |-> "loop", iter |-> c.iter + 1, key |-> keyNext(c.key),
     currentParams |-> met.after,
     stepSize |-> ad.stepSize,
     logStepSize |-> ad.logStepSize,
     logStepSizeAvg |-> ad.logStepSizeAvg,
     hSum |-> ad.hSum,
     mu |-> c.mu,
     massMatrix |-> ad.massMatrix,
     welfordCount |-> ad.welfordCount, welfordMean |-> ad.welfordMean,
     welfordM2 |-> ad.welfordM2,
     samples |-> CollectSample(c.samples, met.after, c.iter < o.numWarmup),
     numAccepted |-> CountAccepted(c.numAccepted, met.accepted, c.iter < o.numWarmup),
     trace |-> Append(c.trace,
                  [isWarmup |-> c.iter < o.numWarmup, before |-> c.currentParams,
                   after |-> met.after, proposed |-> prop.proposed,
                   currentH |-> prop.currentH, proposedH |-> prop.proposedH,
                   deltaH |-> prop.deltaH, acceptProb |-> met.acceptProb,
                   u |-> met.u, accepted |-> met.accepted,
                   stepSize |-> c.stepSize, massMatrix |-> c.massMatrix,
                   gradNaN |-> prop.gradNaN,
                   keys |-> IterationKeyUses(c.currentParams, c.key)])]

LoopAdapt(c, o, prop, met) ==
    LoopEnd(c, o, prop, met, WarmupUpdate(c, o, met.after, met.acceptProb))

LoopAccept(c, o, prop) == LoopAdapt(c, o, prop, Metropolis(c, prop))

\* One iteration of the loop of runSingleChain: one HMC transition.
ChainLoopBody(c, o) == LoopAccept(c, o, Proposal(c, o))

\* What runSingleChain returns: np.stack of no sample throws.
ChainReturn(c, o) ==
    IF c.samples = <<>> THEN [threw |-> TRUE]
    ELSE [threw |-> FALSE,
          draws |-> NpStack(c.samples),
          acceptRate |-> FDiv(FInt(c.numAccepted), FInt(o.numSamples)),
          stepSize |-> c.stepSize]

\* What hmc returns.
HmcResult(chainResults) ==
    [draws |-> NpStack([i \in 1..Len(chainResults) |-> chainResults[i].draws]),
     stats |-> [acceptRate |-> [i \in 1..Len(chainResults) |-> chainResults[i].acceptRate],
                stepSize |-> [i \in 1..Len(chainResults) |-> chainResults[i].stepSize]]]

(***************************************************************************)
(* The options of a call of hmc.  The bounds below bound the inputs the    *)
(* model explores.                                                         *)
(***************************************************************************)
MaxSamples == 2
MaxWarmup == 2
MaxLeapfrog == 2
MaxChains == 2

\* Initial positions: a tree of one leaf and a tree of two leaves.
InitialParamsSet ==
    { <<[name |-> "x", v |-> <<FInt(-1)>>]>>,
      <<[name |-> "a", v |-> <<Half, FInt(-1)>>], [name |-> "b", v |-> <<Zero>>]>> }

\* Initial step sizes: valid ones, and 0 (invalid).
StepSizes == {Half, One, Zero}

\* The seeds of the root key.
Seeds == {0, 1}

\* targetAcceptRate = 0.8, the default.
DefaultTargetAcceptRate == Ratio(8, 10)

\* The calls explored: every numSamples (0 is invalid), numWarmup,
\* numLeapfrogSteps, initial position, target and valid step size; several
\* chains and the invalid step size with the first seed only, several chains
\* on the other targets than the quadratic one with one step of size 0.5.
Options ==
    {o \in [initialParams : InitialParamsSet,
            key : {RandomKey(s) : s \in Seeds},
            numSamples : 0..MaxSamples,
            numWarmup : 0..MaxWarmup,
            numLeapfrogSteps : 1..MaxLeapfrog,
            numChains : 1..MaxChains,
            initialStepSize : StepSizes,
            targetAcceptRate : {DefaultTargetAcceptRate},
            adaptMassMatrix : BOOLEAN,
            target : Targets] :
        /\ o.numChains > 1 => o.key = RandomKey(0)
        /\ (o.numChains > 1 /\ o.target # "normal") =>
               (o.numLeapfrogSteps = 1 /\ o.initialStepSize = Half)
        /\ o.initialStepSize = Zero =>
               (o.key = RandomKey(0) /\ o.target = "normal" /\ ~o.adaptMassMatrix)}

\* The options of the runs that are compared with each other: valid ones.
CompareOptions ==
    {o \in Options : /\ o.key = RandomKey(0)
                     /\ o.numSamples >= 1
                     /\ o.numLeapfrogSteps = 1
                     /\ o.initialStepSize = Half}

\* The options of the runs whose chains are interleaved: the initial position
\* is the tree of two leaves.
InterleaveOptions == {o \in CompareOptions : Len(o.initialParams) = 2}

\* The options of the first of the two runs of the mass matrix test: one
\* chain, a warmup, no adaptation of the mass matrix.
RetuneOptions ==
    {o \in Options : /\ o.numChains = 1
                     /\ o.numSamples >= 1
                     /\ o.numWarmup >= 1
                     /\ o.initialStepSize # Zero
                     /\ ~o.adaptMassMatrix}

\* The options held while no call of hmc is modelled.
NoOptions ==
    [initialParams |-> <<[name |-> "x", v |-> <<Zero>>]>>, key |-> RandomKey(0),
     numSamples |-> 1, numWarmup |-> 0, numLeapfrogSteps |-> 1, numChains |-> 1,
     initialStepSize |-> Half, targetAcceptRate |-> DefaultTargetAcceptRate,
     adaptMassMatrix |-> FALSE, target |-> "normal"]

\* Two calls of hmc are modelled, so that runs can be compared.
Runs == {1, 2}
Chains == 1..MaxChains

(***************************************************************************)
(* The inputs of the reversibility tests: leapfrog forward, the momentum   *)
(* negated, leapfrog again, the momentum negated again.                    *)
(***************************************************************************)
\* leaf.mul(-1)
NegateTree(t) == TreeMap1(LAMBDA leaf : FMul(leaf, FInt(-1)), t)

\* A mass matrix of the structure of q: none, all ones, 1/2 and 1 in turn, or
\* all threes.
MassFor(q, kind) ==
    IF kind = "none" THEN Undefined
    ELSE Defined([i \in 1..Len(q) |->
             [name |-> q[i].name,
              v |-> [j \in 1..Len(q[i].v) |->
                        IF kind = "ones" THEN One
                        ELSE IF kind = "three" THEN FInt(3)
                        ELSE IF (i + j) % 2 = 0 THEN Half ELSE One]]])

MassKinds == {"none", "ones", "halves", "three"}

\* (q, p) pairs: arrays of one element, and trees of two leaves.
PhasePoints ==
    {[q |-> <<[name |-> "x", v |-> <<q>>]>>, p |-> <<[name |-> "x", v |-> <<p>>]>>] :
        q \in {FInt(-1), Zero, Fl(3, -1)}, p \in {FInt(-1), Half, FInt(2)}}
    \cup
    {[q |-> <<[name |-> "x", v |-> <<One, Fl(-1, -1)>>], [name |-> "y", v |-> <<q>>]>>,
      p |-> <<[name |-> "x", v |-> <<Half, Zero>>], [name |-> "y", v |-> <<p>>]>>] :
        q \in {FInt(2), FInt(-1)}, p \in {FInt(-1), One}}

RevStepSizes == {Half, One, Ratio(1, 10)}

RevInputs ==
    {[q0 |-> pt.q, p0 |-> pt.p, stepSize |-> eps, numSteps |-> L,
      massMatrix |-> MassFor(pt.q, kind), target |-> tg] :
        pt \in PhasePoints, eps \in RevStepSizes, L \in 1..MaxLeapfrog,
        kind \in MassKinds, tg \in {"normal", "bounded"}}

(***************************************************************************)
(* The volume preservation test: the Jacobian of (q, p) -> (q', p') by     *)
(* central differences, and its determinant.  A phase point is the         *)
(* sequence of the n elements of q followed by the n elements of p.        *)
(***************************************************************************)
\* The perturbation of the finite differences.
JacobianEps == Fl(1, -2)

\* The elements of q followed by the elements of p.
PhasePoint(out) == out.q[1].v \o out.p[1].v

\* fn of the test: leapfrog on the phase point x, under the mass matrix of
\* the given kind.
PhaseMap(x, stepSize, numSteps, kind, target) ==
    PhasePoint(leapfrog(<<[name |-> "x", v |-> SubSeq(x, 1, Len(x) \div 2)]>>,
                        <<[name |-> "x", v |-> SubSeq(x, Len(x) \div 2 + 1, Len(x))]>>,
                        target, stepSize, numSteps,
                        MassFor(<<[name |-> "x", v |-> SubSeq(x, 1, Len(x) \div 2)]>>, kind)))

\* (fPlus[j] - fMinus[j]) / (2 * eps) for each j
JacobianColumn(fPlus, fMinus) ==
    [j \in 1..Len(fPlus) |->
        FDiv(FSub(fPlus[j], fMinus[j]), FMul(FInt(2), JacobianEps))]

\* The columns 1..i of the Jacobian: column i from fn(x0 + eps e_i) and
\* fn(x0 - eps e_i).
RECURSIVE JacobianColumns(_, _, _, _, _, _)
JacobianColumns(x0, stepSize, numSteps, kind, target, i) ==
    IF i = 0 THEN <<>>
    ELSE Append(JacobianColumns(x0, stepSize, numSteps, kind, target, i - 1),
                JacobianColumn(
                    PhaseMap([x0 EXCEPT ![i] = FAdd(@, JacobianEps)],
                             stepSize, numSteps, kind, target),
                    PhaseMap([x0 EXCEPT ![i] = FSub(@, JacobianEps)],
                             stepSize, numSteps, kind, target)))

\* jac[j][i] is the element j of the column i.
JacobianRows(columns) ==
    [j \in 1..Len(columns) |-> [i \in 1..Len(columns) |-> columns[i][j]]]

computeJacobian(x0, stepSize, numSteps, kind, target) ==
    JacobianRows(JacobianColumns(x0, stepSize, numSteps, kind, target, Len(x0)))

\* The matrix m without its first row and its column c.
Minor(m, c) ==
    [j \in 1..(Len(m) - 1) |->
        [i \in 1..(Len(m) - 1) |-> m[j + 1][IF i < c THEN i ELSE i + 1]]]

\* np.linalg.det, by expansion along the first row.
RECURSIVE Det(_)
RECURSIVE DetTerms(_, _)
DetTerms(m, c) ==
    IF c = 0 THEN Zero
    ELSE FAdd(DetTerms(m, c - 1),
              FMul(FMul(FInt(IF c % 2 = 1 THEN 1 ELSE -1), m[1][c]), Det(Minor(m, c))))
Det(m) == IF Len(m) = 1 THEN m[1][1] ELSE DetTerms(m, Len(m))

\* The phase points of the test: one and two coordinates.
VolumePoints ==
    {<<q, p>> : q \in {FInt(-1), Half, Fl(3, -1)}, p \in {FInt(-1), Zero, Half, FInt(2)}}
    \cup {<<One, Fl(-1, -1), p1, p2>> : p1 \in {Half, FInt(-1)}, p2 \in {Zero, One}}

VolumeInputs ==
    {[x0 |-> x, stepSize |-> eps, numSteps |-> L, kind |-> kind, target |-> "normal"] :
        x \in VolumePoints, eps \in RevStepSizes, L \in 1..MaxLeapfrog,
        kind \in MassKinds}

(***************************************************************************)
(* Diagnostics: rhat and ess of the draws of one parameter, a sequence of  *)
(* chains of numbers.                                                      *)
(***************************************************************************)
mean(values) == FDiv(SumSeq(values), FInt(Len(values)))

\* (b - m) ** 2 for each value b
SquaredDeviations(values, m) ==
    [i \in 1..Len(values) |-> FMul(FSub(values[i], m), FSub(values[i], m))]

\* The sample variance, with the n - 1 denominator.
variance(values, meanValue) ==
    FDiv(SumSeq(SquaredDeviations(values, meanValue)), FInt(Len(values) - 1))

\* The halves of the chains: chain.slice(0, mid) and chain.slice(mid).
SplitChains(draws) ==
    [k \in 1..(2 * Len(draws)) |->
        IF k % 2 = 1
        THEN SubSeq(draws[(k + 1) \div 2], 1, Len(draws[(k + 1) \div 2]) \div 2)
        ELSE SubSeq(draws[k \div 2], Len(draws[k \div 2]) \div 2 + 1, Len(draws[k \div 2]))]

\* The pooled variance estimate and R-hat, from B and W.
RhatEstimate(n, B, W) ==
    MathSqrt(FDiv(FAdd(FMul(FDiv(FInt(n - 1), FInt(n)), W), FDiv(B, FInt(n))), W))

\* The between-chain variance B and the within-chain variance W.
RhatVariances(splitChains, chainMeans, overallMean, n) ==
    RhatEstimate(n,
        FDiv(FMul(SumSeq(SquaredDeviations(chainMeans, overallMean)), FInt(n)),
             FInt(Len(splitChains) - 1)),
        FDiv(SumSeq([i \in 1..Len(splitChains) |->
                        variance(splitChains[i], chainMeans[i])]),
             FInt(Len(splitChains))))

RhatMeans(splitChains, chainMeans) ==
    RhatVariances(splitChains, chainMeans, mean(chainMeans), Len(splitChains[1]))

RhatSplit(splitChains) ==
    RhatMeans(splitChains, [i \in 1..Len(splitChains) |-> mean(splitChains[i])])

rhat(draws) == RhatSplit(SplitChains(draws))

\* 1e-10, below which a variance counts as none.
VarianceFloor == FMul(Ratio(1, 100000), Ratio(1, 100000))

\* autocorr at one lag: the sum of (chain[i] - mean) * (chain[i + lag] - mean)
Autocorr(chain, sampleMean, lag) ==
    SumSeq([i \in 1..(Len(chain) - lag) |->
               FMul(FSub(chain[i], sampleMean), FSub(chain[i + lag], sampleMean))])

\* rho[lag] for lag = 0..maxLag, at the indices 1..maxLag + 1.
Autocorrelations(chain, sampleMean, varianceN, maxLag) ==
    [l \in 1..(maxLag + 1) |->
        FDiv(Autocorr(chain, sampleMean, l - 1), FMul(FInt(Len(chain)), varianceN))]

\* Geyer's sum: the loop over t = 1, 3, ... while t < maxLag - 1.
RECURSIVE GeyerSum(_, _, _, _)
GeyerSum(rho, t, maxLag, essSum) ==
    IF t < maxLag - 1
    THEN IF FLt(FAdd(rho[t + 1], rho[t + 2]), Zero) THEN essSum
         ELSE GeyerSum(rho, t + 2, maxLag,
                       FAdd(essSum, FMul(FInt(2), FAdd(rho[t + 1], rho[t + 2]))))
    ELSE essSum

EssFromRho(n, rho, maxLag) ==
    MathMax(One, FDiv(FInt(n), GeyerSum(rho, 1, maxLag, rho[1])))

EssFromVariance(chain, sampleMean, sampleVariance, maxLag) ==
    IF FLt(sampleVariance, VarianceFloor) THEN FInt(Len(chain))
    ELSE EssFromRho(Len(chain),
             Autocorrelations(chain, sampleMean,
                 FMul(sampleVariance, FDiv(FInt(Len(chain) - 1), FInt(Len(chain)))),
                 maxLag),
             maxLag)

EssFromMean(chain, sampleMean) ==
    EssFromVariance(chain, sampleMean, variance(chain, sampleMean),
                    MinInt(Len(chain) - 1, Len(chain) \div 2))

\* The effective sample size of one chain.
chainEss(chain) ==
    IF Len(chain) < 2 THEN FInt(Len(chain)) ELSE EssFromMean(chain, mean(chain))

\* An earlier ess: all chains are flattened into one sequence.
EssPooled(draws) == chainEss(Concat(draws))

\* ess: the sum of the effective sample sizes of the chains.
ess(draws) == SumSeq([c \in 1..Len(draws) |-> chainEss(draws[c])])

\* The draws explored: one chain of up to MaxDraws values of three kinds; two
\* chains of up to MaxDraws values of two kinds, the second chain being the
\* first, the first reversed or the first with its values exchanged.
MaxDraws == 6

DrawValues == {FInt(0), FInt(1), FInt(2)}

SecondChains(c) ==
    {c, [i \in 1..Len(c) |-> c[Len(c) + 1 - i]], [i \in 1..Len(c) |-> FSub(One, c[i])]}

DrawsSet ==
    UNION {{<<c>> : c \in [1..n -> DrawValues]} : n \in 1..MaxDraws}
    \cup UNION {{<<c, d>> : d \in SecondChains(c)} :
                    c \in UNION {[1..n -> {FInt(0), FInt(1)}] : n \in 1..MaxDraws}}

(***************************************************************************)
(* The inputs of the tests of acceptanceProbability.                       *)
(***************************************************************************)
DeltaValues ==
    {NegInf, FInt(-100), FInt(-1), Fl(-1, -10), Zero, Fl(1, -10), Half, One, FInt(2),
     FInt(4), FInt(100), PosInf, NaN}

(***************************************************************************)
(* State.                                                                  *)
(*   opts          the logProb target and the options the calls are given  *)
(*   hmcPc[r]      where call r of hmc is: "idle" (not called), "called",  *)
(*                 "chains" (in its loop over the chains), "returned",     *)
(*                 "threw"                                                 *)
(*   keyList[r]    the chain keys split from the root key                  *)
(*   chainIdx[r]   the loop variable of hmc (1-based)                      *)
(*   chain[r][c]   the local variables of runSingleChain for chain c       *)
(*   chainResults[r][c]  what runSingleChain returned for chain c          *)
(*   result[r]     what hmc returned                                       *)
(*   rev           the reversibility test: its inputs, and the phase       *)
(*                 points after the forward and the backward integration   *)
(***************************************************************************)
VARIABLES opts, hmcPc, keyList, chainIdx, chain, chainResults, result, rev

vars == <<opts, hmcPc, keyList, chainIdx, chain, chainResults, result, rev>>

IdleChain == [pc |-> "idle"]
NoResult == [threw |-> TRUE]
NoRev == [pc |-> "off"]

InitRuns(called) ==
    /\ hmcPc = [r \in Runs |-> IF r \in called THEN "called" ELSE "idle"]
    /\ keyList = [r \in Runs |-> <<>>]
    /\ chainIdx = [r \in Runs |-> 0]
    /\ chain = [r \in Runs |-> [c \in Chains |-> IdleChain]]
    /\ chainResults = [r \in Runs |-> [c \in Chains |-> NoResult]]
    /\ result = [r \in Runs |-> NoResult]

\* hmc, up to its loop: the options are taken as given and the root key is
\* split into the chain keys.
HmcEntry(r) ==
    /\ hmcPc[r] = "called"
    /\ hmcPc' = [hmcPc EXCEPT ![r] = "chains"]
    /\ keyList' = [keyList EXCEPT ![r] = RandomSplit(opts.key, opts.numChains)]
    /\ chainIdx' = [chainIdx EXCEPT ![r] = 1]
    /\ UNCHANGED <<opts, chain, chainResults, result, rev>>

\* The call of runSingleChain for chain c, up to its loop.  In hmc the
\* chains run in index order, each after the one before it has returned.
ChainStart(r, c, inOrder) ==
    /\ hmcPc[r] = "chains"
    /\ c \in 1..opts.numChains
    /\ chain[r][c].pc = "idle"
    /\ inOrder => c = chainIdx[r]
    /\ chain' = [chain EXCEPT ![r][c] = InitChain(opts, keyList[r][c])]
    /\ UNCHANGED <<opts, hmcPc, keyList, chainIdx, chainResults, result, rev>>

\* The transitions run so far by the chain c of the call r.
Trace(r, c) == IF chain[r][c].pc = "idle" THEN <<>> ELSE chain[r][c].trace

\* The number of transitions run so far by all chains of all calls.
TotalTransitions ==
    SumInts([i \in 1..(2 * MaxChains) |->
                Len(Trace(((i - 1) \div MaxChains) + 1, ((i - 1) % MaxChains) + 1))])

\* A faulty loop iteration: the draws come from a generator shared by the
\* whole process, whose state advances with every transition of any call.
ChainIterationGlobal(r, c) ==
    /\ hmcPc[r] = "chains"
    /\ chain[r][c].pc = "loop"
    /\ chain[r][c].iter < opts.numWarmup + opts.numSamples
    /\ chain' = [chain EXCEPT ![r][c] =
                    ChainLoopBody([@ EXCEPT !.key = Append(@, TotalTransitions)], opts)]
    /\ UNCHANGED <<opts, hmcPc, keyList, chainIdx, chainResults, result, rev>>

\* A faulty loop iteration: the step size is a variable shared by the chains
\* of a call, so a chain integrates with the step size the chain before it
\* wrote last.
ChainIterationShared(r, c) ==
    /\ hmcPc[r] = "chains"
    /\ chain[r][c].pc = "loop"
    /\ chain[r][c].iter < opts.numWarmup + opts.numSamples
    /\ chain' = [chain EXCEPT ![r][c] =
                    ChainLoopBody(
                        IF c > 1 /\ chain[r][c - 1].pc # "idle"
                        THEN [@ EXCEPT !.stepSize = chain[r][c - 1].stepSize]
                        ELSE @, opts)]
    /\ UNCHANGED <<opts, hmcPc, keyList, chainIdx, chainResults, result, rev>>

\* One iteration of the loop of runSingleChain.
ChainIteration(r, c) ==
    /\ hmcPc[r] = "chains"
    /\ chain[r][c].pc = "loop"
    /\ chain[r][c].iter < opts.numWarmup + opts.numSamples
    /\ chain' = [chain EXCEPT ![r][c] = ChainLoopBody(@, opts)]
    /\ UNCHANGED <<opts, hmcPc, keyList, chainIdx, chainResults, result, rev>>

\* The end of runSingleChain: it returns its draws and statistics to hmc,
\* or throws, and hmc with it.
ChainFinish(r, c) ==
    /\ hmcPc[r] = "chains"
    /\ chain[r][c].pc = "loop"
    /\ chain[r][c].iter >= opts.numWarmup + opts.numSamples
    /\ IF ChainReturn(chain[r][c], opts).threw
       THEN /\ chain' = [chain EXCEPT ![r][c].pc = "threw"]
            /\ hmcPc' = [hmcPc EXCEPT ![r] = "threw"]
            /\ UNCHANGED <<chainIdx, chainResults>>
       ELSE /\ chain' = [chain EXCEPT ![r][c].pc = "done"]
            /\ chainResults' = [chainResults EXCEPT ![r][c] = ChainReturn(chain[r][c], opts)]
            /\ chainIdx' = [chainIdx EXCEPT ![r] = @ + 1]
            /\ UNCHANGED hmcPc
    /\ UNCHANGED <<opts, keyList, result, rev>>

\* The end of hmc: the chains' results are stacked and returned.
HmcReturn(r) ==
    /\ hmcPc[r] = "chains"
    /\ \A c \in 1..opts.numChains : chain[r][c].pc = "done"
    /\ hmcPc' = [hmcPc EXCEPT ![r] = "returned"]
    /\ result' = [result EXCEPT ![r] =
                     HmcResult([c \in 1..opts.numChains |-> chainResults[r][c]])]
    /\ UNCHANGED <<opts, keyList, chainIdx, chain, chainResults, rev>>

\* The second call of hmc, made with the same arguments once the first call
\* has ended.
HmcCallAgain ==
    /\ hmcPc[1] \in {"returned", "threw"}
    /\ hmcPc[2] = "idle"
    /\ hmcPc' = [hmcPc EXCEPT ![2] = "called"]
    /\ UNCHANGED <<opts, keyList, chainIdx, chain, chainResults, result, rev>>

\* The second call of hmc of the mass matrix test, made once the first call
\* has ended: the same arguments but adaptMassMatrix = true.
HmcCallAdapting ==
    /\ hmcPc[1] \in {"returned", "threw"}
    /\ hmcPc[2] = "idle"
    /\ ~opts.adaptMassMatrix
    /\ hmcPc' = [hmcPc EXCEPT ![2] = "called"]
    /\ opts' = [opts EXCEPT !.adaptMassMatrix = TRUE]
    /\ UNCHANGED <<keyList, chainIdx, chain, chainResults, result, rev>>

\* The reversibility test: leapfrog forward from (q0, p0) ...
RevForward ==
    /\ rev.pc = "start"
    /\ rev' = [rev EXCEPT !.pc = "forward",
                  !.fwd = leapfrog(rev.q0, rev.p0, rev.target, rev.stepSize,
                                   rev.numSteps, rev.massMatrix)]
    /\ UNCHANGED <<opts, hmcPc, keyList, chainIdx, chain, chainResults, result>>

\* ... and again from (q1, -p1), the momentum negated once more at the end.
RevBackward ==
    /\ rev.pc = "forward"
    /\ rev' = [rev EXCEPT !.pc = "backward",
                  !.bwd = leapfrog(rev.fwd.q, NegateTree(rev.fwd.p), rev.target,
                                   rev.stepSize, rev.numSteps, rev.massMatrix)]
    /\ UNCHANGED <<opts, hmcPc, keyList, chainIdx, chain, chainResults, result>>

\* leapfrog statement by statement.  log lists the operations performed: for
\* each its kind, its step, the position held after it and the position at
\* which the gradient held was evaluated.
Logged(r, op, scale) ==
    [r EXCEPT !.log = Append(@, [op |-> op, scale |-> scale, q |-> r.q,
                                 gradAt |-> r.gradAt])]

\* const gradInitial = gradLogProb(q)
LfGradInitial ==
    /\ rev.pc = "gradInitial"
    /\ rev' = Logged([rev EXCEPT !.pc = "halfStep",
                         !.grad = GradLogProb(rev.target, rev.q),
                         !.gradAt = rev.q], "grad", Zero)
    /\ UNCHANGED <<opts, hmcPc, keyList, chainIdx, chain, chainResults, result>>

\* p = updateMomentum(p, gradInitial, stepSize * 0.5)
LfHalfStep ==
    /\ rev.pc = "halfStep"
    /\ rev' = Logged([rev EXCEPT !.pc = "loop",
                         !.p = updateMomentum(rev.p, rev.grad, FMul(rev.stepSize, Half))],
                     "momentum", FMul(rev.stepSize, Half))
    /\ UNCHANGED <<opts, hmcPc, keyList, chainIdx, chain, chainResults, result>>

\* q = updatePosition(q, p, stepSize, massMatrix), while i < numSteps
LfPosition ==
    /\ rev.pc = "loop"
    /\ rev.i < rev.numSteps
    /\ rev' = Logged([rev EXCEPT !.pc = "gradient",
                         !.q = updatePosition(rev.q, rev.p, rev.stepSize, rev.massMatrix)],
                     "position", rev.stepSize)
    /\ UNCHANGED <<opts, hmcPc, keyList, chainIdx, chain, chainResults, result>>

\* const gradCurrent = gradLogProb(q)
LfGradient ==
    /\ rev.pc = "gradient"
    /\ rev' = Logged([rev EXCEPT !.pc = "momentum",
                         !.grad = GradLogProb(rev.target, rev.q),
                         !.gradAt = rev.q], "grad", Zero)
    /\ UNCHANGED <<opts, hmcPc, keyList, chainIdx, chain, chainResults, result>>

\* p = updateMomentum(p, gradCurrent, momentumStepSize); i++
LfMomentum ==
    /\ rev.pc = "momentum"
    /\ rev' = Logged([rev EXCEPT !.pc = "loop", !.i = rev.i + 1,
                         !.p = updateMomentum(rev.p, rev.grad,
                                   momentumStepSize(rev.i, rev.numSteps, rev.stepSize))],
                     "momentum", momentumStepSize(rev.i, rev.numSteps, rev.stepSize))
    /\ UNCHANGED <<opts, hmcPc, keyList, chainIdx, chain, chainResults, result>>

\* return [q, p]
LfReturn ==
    /\ rev.pc = "loop"
    /\ rev.i >= rev.numSteps
    /\ rev' = [rev EXCEPT !.pc = "done"]
    /\ UNCHANGED <<opts, hmcPc, keyList, chainIdx, chain, chainResults, result>>

\* The volume preservation test: the Jacobian at x0 ...
VolJacobian ==
    /\ rev.pc = "volume"
    /\ rev' = [rev EXCEPT !.pc = "jacobian",
                  !.jac = computeJacobian(rev.x0, rev.stepSize, rev.numSteps,
                                          rev.kind, rev.target)]
    /\ UNCHANGED <<opts, hmcPc, keyList, chainIdx, chain, chainResults, result>>

\* ... and its determinant.
VolDet ==
    /\ rev.pc = "jacobian"
    /\ rev' = [rev EXCEPT !.pc = "det", !.det = Det(rev.jac)]
    /\ UNCHANGED <<opts, hmcPc, keyList, chainIdx, chain, chainResults, result>>

\* The diagnostics of the draws of one parameter: ess ...
DiagEss ==
    /\ rev.pc = "draws"
    /\ rev' = [rev EXCEPT !.pc = "ess", !.ess = ess(rev.draws)]
    /\ UNCHANGED <<opts, hmcPc, keyList, chainIdx, chain, chainResults, result>>

\* ... and rhat.
DiagRhat ==
    /\ rev.pc = "ess"
    /\ rev' = [rev EXCEPT !.pc = "rhat", !.rhat = rhat(rev.draws)]
    /\ UNCHANGED <<opts, hmcPc, keyList, chainIdx, chain, chainResults, result>>

\* The monotonicity test: acceptanceProbability of two values of deltaH.
AcceptProbs ==
    /\ rev.pc = "deltas"
    /\ rev' = [rev EXCEPT !.pc = "probs",
                  !.pa = acceptanceProbability(rev.a),
                  !.pb = acceptanceProbability(rev.b)]
    /\ UNCHANGED <<opts, hmcPc, keyList, chainIdx, chain, chainResults, result>>

\* One call of hmc, its chains run one after another as hmc runs them.
Init ==
    /\ opts \in Options
    /\ InitRuns({1})
    /\ rev = NoRev

Next ==
    \/ HmcEntry(1)
    \/ \E c \in Chains : ChainStart(1, c, TRUE)
    \/ \E c \in Chains : ChainIteration(1, c)
    \/ \E c \in Chains : ChainFinish(1, c)
    \/ HmcReturn(1)

Spec == Init /\ [][Next]_vars

\* Two calls of hmc with the same arguments, one after the other.
InitRepeat ==
    /\ opts \in CompareOptions
    /\ InitRuns({1})
    /\ rev = NoRev

NextRepeat ==
    \/ \E r \in Runs : HmcEntry(r)
    \/ \E r \in Runs : \E c \in Chains : ChainStart(r, c, TRUE)
    \/ \E r \in Runs : \E c \in Chains : ChainIteration(r, c)
    \/ \E r \in Runs : \E c \in Chains : ChainFinish(r, c)
    \/ \E r \in Runs : HmcReturn(r)
    \/ HmcCallAgain

SpecRepeat == InitRepeat /\ [][NextRepeat]_vars

\* A call of hmc as hmc schedules its chains, then a call with the same
\* arguments whose chains are started in any order and whose transitions are
\* interleaved in any way.
InitInterleaved ==
    /\ opts \in InterleaveOptions
    /\ InitRuns({1})
    /\ rev = NoRev

NextInterleaved ==
    \/ \E r \in Runs : HmcEntry(r)
    \/ \E c \in Chains : ChainStart(1, c, TRUE)
    \/ \E c \in Chains : ChainStart(2, c, FALSE)
    \/ \E r \in Runs : \E c \in Chains : ChainIteration(r, c)
    \/ \E r \in Runs : \E c \in Chains : ChainFinish(r, c)
    \/ \E r \in Runs : HmcReturn(r)
    \/ HmcCallAgain

SpecInterleaved == InitInterleaved /\ [][NextInterleaved]_vars

\* The mass matrix test: a call of hmc with adaptMassMatrix = false, then a
\* call with adaptMassMatrix = true and otherwise the same arguments.
InitRetune ==
    /\ opts \in RetuneOptions
    /\ InitRuns({1})
    /\ rev = NoRev

NextRetune ==
    \/ \E r \in Runs : HmcEntry(r)
    \/ \E r \in Runs : ChainStart(r, 1, TRUE)
    \/ \E r \in Runs : ChainIteration(r, 1)
    \/ \E r \in Runs : ChainFinish(r, 1)
    \/ \E r \in Runs : HmcReturn(r)
    \/ HmcCallAdapting

SpecRetune == InitRetune /\ [][NextRetune]_vars

\* The reversibility test on each of its inputs.
InitLeapfrog ==
    /\ opts = NoOptions
    /\ InitRuns({})
    /\ rev \in {[pc |-> "start", q0 |-> i.q0, p0 |-> i.p0, stepSize |-> i.stepSize,
                 numSteps |-> i.numSteps, massMatrix |-> i.massMatrix,
                 target |-> i.target,
                 fwd |-> [q |-> i.q0, p |-> i.p0, evals |-> <<>>],
                 bwd |-> [q |-> i.q0, p |-> i.p0, evals |-> <<>>]] : i \in RevInputs}

NextLeapfrog == RevForward \/ RevBackward

SpecLeapfrog == InitLeapfrog /\ [][NextLeapfrog]_vars
\* One call of leapfrog, statement by statement, on each input of the
\* reversibility test.
InitTrajectory ==
    /\ opts = NoOptions
    /\ InitRuns({})
    /\ rev \in {[pc |-> "gradInitial", q0 |-> i.q0, p0 |-> i.p0, q |-> i.q0, p |-> i.p0,
                 i |-> 0, grad |-> i.q0, gradAt |-> i.q0, stepSize |-> i.stepSize,
                 numSteps |-> i.numSteps, massMatrix |-> i.massMatrix,
                 target |-> i.target, log |-> <<>>] : i \in RevInputs}

NextTrajectory ==
    LfGradInitial \/ LfHalfStep \/ LfPosition \/ LfGradient \/ LfMomentum \/ LfReturn

SpecTrajectory == InitTrajectory /\ [][NextTrajectory]_vars

\* The volume preservation test on each of its inputs.
InitVolume ==
    /\ opts = NoOptions
    /\ InitRuns({})
    /\ rev \in {[pc |-> "volume", x0 |-> i.x0, stepSize |-> i.stepSize,
                 numSteps |-> i.numSteps, kind |-> i.kind, target |-> i.target,
                 jac |-> <<>>, det |-> Zero] : i \in VolumeInputs}

NextVolume == VolJacobian \/ VolDet

SpecVolume == InitVolume /\ [][NextVolume]_vars

\* The diagnostics of each of the draws explored.
InitDiagnostics ==
    /\ opts = NoOptions
    /\ InitRuns({})
    /\ rev \in {[pc |-> "draws", draws |-> d, ess |-> Zero, rhat |-> Zero] : d \in DrawsSet}

NextDiagnostics == DiagEss \/ DiagRhat

SpecDiagnostics == InitDiagnostics /\ [][NextDiagnostics]_vars

\* acceptanceProbability on each pair of its inputs.
InitAcceptance ==
    /\ opts = NoOptions
    /\ InitRuns({})
    /\ rev \in {[pc |-> "deltas", a |-> x, b |-> y, pa |-> Zero, pb |-> Zero] :
                   x \in DeltaValues, y \in DeltaValues}

NextAcceptance == AcceptProbs

SpecAcceptance == InitAcceptance /\ [][NextAcceptance]_vars

(***************************************************************************)
(* Properties.                                                             *)
(***************************************************************************)
\* |x|
FAbs(x) == IF x.m < 0 THEN FNeg(x) ELSE x

\* max |t - u| < tol over the elements of two trees of one structure.
TreeClose(t, u, tol) ==
    \A i \in 1..Len(t) : \A j \in 1..Len(t[i].v) :
        FLt(FAbs(FSub(t[i].v[j], u[i].v[j])), tol)

\* numWarmup + numSamples
TotalIterations == opts.numWarmup + opts.numSamples

\* C1: in every transition of every chain, a non-finite energy difference
\* deltaH (NaN, +Infinity or -Infinity) leaves the position of the chain as
\* it was before the transition.
NonFiniteDeltaRejected ==
    \A c \in Chains : \A k \in 1..Len(Trace(1, c)) :
        ~IsFinite(Trace(1, c)[k].deltaH) =>
            Trace(1, c)[k].after = Trace(1, c)[k].before

\* C2: if a gradient evaluated on the first trajectory of a chain holds a
\* NaN (and numSamples >= 1), the first proposal is rejected and the position
\* after it is initialParams; neither the chain nor hmc throws: the chain
\* stays in its loop until it returns, and has run numWarmup + numSamples
\* transitions when it returns.
GradientNaNRejected ==
    \A c \in Chains :
        (/\ Len(Trace(1, c)) >= 1
         /\ Trace(1, c)[1].gradNaN
         /\ opts.numSamples >= 1) =>
            /\ ~Trace(1, c)[1].accepted
            /\ Trace(1, c)[1].before = opts.initialParams
            /\ Trace(1, c)[1].after = opts.initialParams
            /\ chain[1][c].pc \in {"loop", "done"}
            /\ hmcPc[1] \in {"chains", "returned"}
            /\ chain[1][c].iter = Len(Trace(1, c))
            /\ chain[1][c].iter <= TotalIterations
            /\ chain[1][c].pc = "done" => Len(Trace(1, c)) = TotalIterations

\* A chain whose first trajectory met a NaN gradient has run to its end and
\* hmc has returned.
GradientNaNWitness ==
    /\ hmcPc[1] = "returned"
    /\ opts.numSamples >= 1
    /\ \E c \in 1..opts.numChains :
           /\ Trace(1, c)[1].gradNaN
           /\ Trace(1, c)[1].proposed # opts.initialParams
           /\ Len(Trace(1, c)) >= 2

\* C3: a chain holds no sample while it is in warmup and one sample per
\* post-warmup transition run so far, the k-th being the position held after
\* the k-th post-warmup transition, which is the position held before it when
\* the transition rejected; a chain that has returned has returned
\* numSamples draws.
SamplesAfterWarmupOnly ==
    \A c \in Chains : chain[1][c].pc # "idle" =>
        /\ Len(chain[1][c].samples) =
               (IF Len(Trace(1, c)) > opts.numWarmup
                THEN Len(Trace(1, c)) - opts.numWarmup ELSE 0)
        /\ \A k \in 1..Len(chain[1][c].samples) :
               /\ chain[1][c].samples[k] =
                      flattenTree(Trace(1, c)[opts.numWarmup + k].after)
               /\ ~Trace(1, c)[opts.numWarmup + k].accepted =>
                      chain[1][c].samples[k] =
                          flattenTree(Trace(1, c)[opts.numWarmup + k].before)
        /\ chain[1][c].pc = "done" =>
               /\ Len(chain[1][c].samples) = opts.numSamples
               /\ chainResults[1][c].draws.shape[1] = opts.numSamples

\* A chain has returned after a warmup with an accepted transition and a
\* post-warmup phase with an accepted and a rejected transition.
SamplesWitness ==
    \E c \in Chains :
        /\ chain[1][c].pc = "done"
        /\ \E k \in 1..opts.numWarmup : Trace(1, c)[k].accepted
        /\ \E k \in (opts.numWarmup + 1)..Len(Trace(1, c)) : Trace(1, c)[k].accepted
        /\ \E k \in (opts.numWarmup + 1)..Len(Trace(1, c)) :
               /\ ~Trace(1, c)[k].accepted
               /\ Trace(1, c)[k].proposed # Trace(1, c)[k].before

\* C6: the acceptRate a chain returns is the number of its accepted
\* post-warmup transitions divided by the number of its post-warmup
\* transitions, whatever was accepted during warmup, and lies in [0, 1].
AcceptRatePostWarmupOnly ==
    \A c \in Chains : chain[1][c].pc = "done" =>
        /\ chainResults[1][c].acceptRate =
               FDiv(FInt(Cardinality({k \in (opts.numWarmup + 1)..Len(Trace(1, c)) :
                                         Trace(1, c)[k].accepted})),
                    FInt(Len(Trace(1, c)) - opts.numWarmup))
        /\ FLe(Zero, chainResults[1][c].acceptRate)
        /\ FLe(chainResults[1][c].acceptRate, One)

\* A chain has returned after accepting during warmup and both accepting and
\* rejecting after it.
AcceptRateWitness ==
    \E c \in Chains :
        /\ chain[1][c].pc = "done"
        /\ \E k \in 1..opts.numWarmup : Trace(1, c)[k].accepted
        /\ FLt(Zero, chainResults[1][c].acceptRate)
        /\ FLt(chainResults[1][c].acceptRate, One)

\* C7: with numSamples <= 0 or initialStepSize <= 0 the call ends at its
\* entry: no key is split, no chain is started and no transition is run.
InvalidOptionsFatalAtEntry ==
    (opts.numSamples <= 0 \/ FLe(opts.initialStepSize, Zero)) =>
        /\ hmcPc[1] \in {"called", "threw"}
        /\ keyList[1] = <<>>
        /\ \A c \in Chains : chain[1][c].pc = "idle"

\* A parameter tree of draws: for each leaf of initialParams a leaf of the
\* same name and of shape [numChains, numSamples, ...leaf shape].
IsDrawsTree(draws, o) ==
    /\ draws.kind = "tree"
    /\ Len(draws.leaves) = Len(o.initialParams)
    /\ \A i \in 1..Len(o.initialParams) :
           /\ draws.leaves[i].name = o.initialParams[i].name
           /\ draws.leaves[i].shape =
                  <<o.numChains, o.numSamples>> \o <<Len(o.initialParams[i].v)>>

\* C8: the draws hmc returns are a parameter tree of the structure of
\* initialParams, each leaf under leading [numChains, numSamples] axes.
DrawsMirrorInitialParams ==
    hmcPc[1] = "returned" => IsDrawsTree(result[1].draws, opts)

\* C9: the stats hmc returns hold, beside acceptRate and stepSize, the final
\* mass matrix of every chain, of the structure of the parameter tree.
StatsReportMassMatrix ==
    hmcPc[1] = "returned" =>
        /\ DOMAIN result[1].stats = {"acceptRate", "stepSize", "massMatrix"}
        /\ \A c \in 1..opts.numChains :
               TreeStructure(result[1].stats.massMatrix[c]) =
                   TreeStructure(opts.initialParams)

\* Whether the sequence t is a prefix of the sequence u.
IsPrefix(t, u) == Len(t) <= Len(u) /\ SubSeq(u, 1, Len(t)) = t

RevTolerance == Fl(1, 7 - Precision)

\* A power of two.
IsPowerOfTwo(x) == x.k = "fin" /\ x.m = 1

\* Whether every product and quotient of the integration is exact: the step
\* size and the masses are powers of two.
ExactScaling(r) ==
    /\ IsPowerOfTwo(r.stepSize)
    /\ r.massMatrix.def =>
           \A i \in 1..Len(r.massMatrix.v) : \A j \in 1..Len(r.massMatrix.v[i].v) :
               IsPowerOfTwo(r.massMatrix.v[i].v[j])

\* C10: leapfrog from (q', -p'), where (q', p') is what leapfrog gives from
\* (q, p), gives (q, -p) with the same step size, step count and mass: to
\* within the tolerance of the tests for every input, and exactly where the
\* scaling by the step size and the masses is exact.
LeapfrogReversible ==
    rev.pc = "backward" =>
        /\ TreeClose(rev.bwd.q, rev.q0, RevTolerance)
        /\ TreeClose(NegateTree(rev.bwd.p), rev.p0, RevTolerance)
        /\ ExactScaling(rev) =>
               (rev.bwd.q = rev.q0 /\ NegateTree(rev.bwd.p) = rev.p0)

\* A trajectory of several steps under a mass matrix has been run forward
\* to another point and back.
LeapfrogReversibleWitness ==
    /\ rev.pc = "backward"
    /\ rev.numSteps >= 2
    /\ rev.massMatrix.def
    /\ ExactScaling(rev)
    /\ Len(rev.q0) >= 2
    /\ rev.fwd.q # rev.q0
    /\ rev.fwd.p # rev.p0

\* The error allowed in the determinant: 16 units in the last place, where
\* the test allows 3e-4 in 32-bit floating point.
VolTolerance == Fl(1, 4 - Precision)

\* C11: the determinant of the Jacobian of the leapfrog map (q, p) -> (q', p')
\* has absolute value 1 for the quadratic logProb, for every step size, step
\* count and mass, to within the rounding of the arithmetic.
VolumePreserved ==
    rev.pc = "det" => FLt(FAbs(FSub(FAbs(rev.det), One)), VolTolerance)

\* The determinant has been taken of a Jacobian of two coordinates that is
\* not the identity, after several steps under a mass matrix.
VolumePreservedWitness ==
    /\ rev.pc = "det"
    /\ Len(rev.x0) = 4
    /\ rev.numSteps >= 2
    /\ rev.kind = "halves"
    /\ rev.jac[1][1] # One
    /\ rev.jac[1][3] # Zero

\* C12: when the run with adaptMassMatrix = false and the run with
\* adaptMassMatrix = true, same key and otherwise the same options, have both
\* returned and the second has adapted its mass matrix, their final step
\* sizes differ.
AdaptRetunesStepSize ==
    (/\ hmcPc[1] = "returned"
     /\ hmcPc[2] = "returned"
     /\ chain[2][1].massMatrix.def)
        => result[2].stats.stepSize[1] # result[1].stats.stepSize[1]

\* C13: for C >= 1 chains of N >= 1 draws each, ess returns a value in
\* [1, C * N].
EssWithinBounds ==
    rev.pc \in {"ess", "rhat"} =>
        /\ FLe(One, rev.ess)
        /\ FLe(rev.ess, FInt(Len(rev.draws) * Len(rev.draws[1])))

\* C14: rhat returns 1 when all chains passed to it are the same sequence.
RhatOneForIdenticalChains ==
    (/\ rev.pc = "rhat"
     /\ \A c \in 1..Len(rev.draws) : rev.draws[c] = rev.draws[1])
        => rev.rhat = One

\* C15: the ess of several chains is the sum of the ess of each chain taken
\* alone.
EssAdditive ==
    rev.pc \in {"ess", "rhat"} =>
        rev.ess = SumSeq([c \in 1..Len(rev.draws) |-> ess(<<rev.draws[c]>>)])

\* The ess has been taken of two chains that differ, long enough for
\* autocorrelation terms beyond lag 0 to be summed.
EssAdditiveWitness ==
    /\ rev.pc = "ess"
    /\ Len(rev.draws) = 2
    /\ Len(rev.draws[1]) >= 6
    /\ rev.draws[1] # rev.draws[2]
    /\ FLt(rev.ess, FInt(Len(rev.draws) * Len(rev.draws[1])))
    /\ FLt(One, chainEss(rev.draws[1]))

\* C16: acceptanceProbability is monotone decreasing in deltaH: for all
\* inputs a <= b, acceptanceProbability(b) <= acceptanceProbability(a).
AcceptanceMonotoneForAll ==
    (rev.pc = "probs" /\ FLe(rev.a, rev.b)) => FLe(rev.pb, rev.pa)

\* C16, amended: the same for all inputs a <= b but a = -Infinity, where the
\* result is 0.
AcceptanceMonotone ==
    (rev.pc = "probs" /\ FLe(rev.a, rev.b) /\ rev.a # NegInf) => FLe(rev.pb, rev.pa)

\* Two finite positive values of deltaH have been compared, the greater one
\* having the strictly smaller probability.
AcceptanceMonotoneWitness ==
    /\ rev.pc = "probs"
    /\ FLt(Zero, rev.a)
    /\ FLt(rev.a, rev.b)
    /\ IsFinite(rev.b)
    /\ FLt(rev.pb, rev.pa)
    /\ FLt(Zero, rev.pb)

\* The adaptation state of a chain: step size, mass matrix, dual averaging
\* and Welford.
AdaptationState(c) ==
    <<c.stepSize, c.massMatrix, c.logStepSize, c.logStepSizeAvg, c.hSum, c.mu,
      c.welfordCount, c.welfordMean, c.welfordM2>>

\* After a warmup, the step size is the clamped exp(logStepSizeAvg), the mass
\* matrix is the finalized one, and every transition after warmup has used
\* them.
FrozenAfterWarmup(c) ==
    (c.pc # "idle" /\ opts.numWarmup >= 1 /\ c.iter >= opts.numWarmup) =>
        /\ c.stepSize = ClampStep(MathExp(c.logStepSizeAvg))
        /\ c.massMatrix = FinalMassMatrix(opts.adaptMassMatrix, c.welfordCount,
                                          c.welfordM2, Undefined)
        /\ \A k \in (opts.numWarmup + 1)..Len(c.trace) :
               /\ c.trace[k].stepSize = c.stepSize
               /\ c.trace[k].massMatrix = c.massMatrix

\* C17: after warmup the step size is the clamped exp(logStepSizeAvg) of the
\* last warmup transition and the mass matrix the one finalized there, and
\* no transition after warmup changes the step size, the mass matrix, the
\* dual averaging state or the Welford state.
PostWarmupFrozen ==
    /\ [](\A c \in Chains : FrozenAfterWarmup(chain[1][c]))
    /\ [][\A c \in Chains :
            (/\ chain[1][c].pc = "loop"
             /\ chain[1][c].iter >= opts.numWarmup
             /\ chain'[1][c].pc = "loop")
                => AdaptationState(chain'[1][c]) = AdaptationState(chain[1][c])]_vars

\* A transition after warmup has run with a step size that is the averaged
\* iterate and not the last one, under an adapted mass matrix.
PostWarmupFrozenWitness ==
    \E c \in Chains :
        /\ chain[1][c].pc = "loop"
        /\ opts.numWarmup >= 2
        /\ chain[1][c].iter > opts.numWarmup
        /\ chain[1][c].massMatrix.def
        /\ chain[1][c].stepSize # ClampStep(MathExp(chain[1][c].logStepSize))
        /\ chain[1][c].trace[chain[1][c].iter].stepSize = chain[1][c].stepSize

\* The unclamped value of the step size a chain is about to use:
\* initialStepSize, exp(logStepSize) during warmup, exp(logStepSizeAvg) after.
UnclampedStep(c) ==
    IF c.iter = 0 \/ opts.numWarmup = 0 THEN opts.initialStepSize
    ELSE IF c.iter < opts.numWarmup THEN MathExp(c.logStepSize)
    ELSE MathExp(c.logStepSizeAvg)

\* s = clamp(x, StepMin, max) for some max between 1 and 100.
ClampedAsSpecified(s, x) ==
    IF FLe(x, One) THEN s = MathMax(StepMin, x)
    ELSE FLe(One, s) /\ FLe(s, MathMin(x, FInt(100)))

\* C18: the step size a chain uses in a transition, the first one included,
\* is clamp(x, 1e-4, max) for a max between 1 and 100, x being the unclamped
\* value; here for the calls with a positive initialStepSize.
StepSizeClampedAsSpecified ==
    \A c \in Chains :
        (/\ chain[1][c].pc = "loop"
         /\ chain[1][c].iter < TotalIterations
         /\ FLt(Zero, opts.initialStepSize))
            => ClampedAsSpecified(chain[1][c].stepSize, UnclampedStep(chain[1][c]))

\* The operations of a trajectory of L steps of size eps, in order: a
\* gradient and half a momentum step, then L rounds of a position step, a
\* gradient and a momentum step, the last of them half a step.
RECURSIVE TrajectoryRounds(_, _, _)
TrajectoryRounds(round, L, eps) ==
    IF round > L THEN <<>>
    ELSE <<[op |-> "position", scale |-> eps], [op |-> "grad", scale |-> Zero],
           [op |-> "momentum", scale |-> IF round < L THEN eps ELSE FMul(eps, Half)]>>
         \o TrajectoryRounds(round + 1, L, eps)

TrajectoryOps(L, eps) ==
    <<[op |-> "grad", scale |-> Zero], [op |-> "momentum", scale |-> FMul(eps, Half)]>>
    \o TrajectoryRounds(1, L, eps)

\* The kinds and steps of the operations performed so far.
LoggedOps == [k \in 1..Len(rev.log) |-> [op |-> rev.log[k].op, scale |-> rev.log[k].scale]]

\* C19: the operations of a leapfrog trajectory are, in this order, a gradient
\* at q0 and half a momentum step, then L times a position step, a gradient
\* at the new position and a momentum step (a full one but in the last
\* round); the gradient is evaluated L + 1 times, every momentum step uses
\* the gradient of the position held, and the result is that of leapfrog.
TrajectoryOrder ==
    rev.pc # "off" =>
        /\ IsPrefix(LoggedOps, TrajectoryOps(rev.numSteps, rev.stepSize))
        /\ \A k \in 1..Len(rev.log) :
               /\ rev.log[k].op \in {"grad", "momentum"} => rev.log[k].gradAt = rev.log[k].q
               /\ (rev.log[k].op = "grad" /\ k = 1) => rev.log[k].q = rev.q0
        /\ rev.pc = "done" =>
               /\ LoggedOps = TrajectoryOps(rev.numSteps, rev.stepSize)
               /\ Cardinality({k \in 1..Len(rev.log) : rev.log[k].op = "grad"})
                      = rev.numSteps + 1
               /\ rev.q = leapfrog(rev.q0, rev.p0, rev.target, rev.stepSize,
                                   rev.numSteps, rev.massMatrix).q
               /\ rev.p = leapfrog(rev.q0, rev.p0, rev.target, rev.stepSize,
                                   rev.numSteps, rev.massMatrix).p

\* A trajectory of several steps that moved at every step has returned.
TrajectoryOrderWitness ==
    /\ rev.pc = "done"
    /\ rev.numSteps >= 2
    /\ Len(rev.log) = 3 * rev.numSteps + 2
    /\ \A k \in 2..Len(rev.log) :
           rev.log[k].op = "position" => rev.log[k].q # rev.log[k].gradAt

\* The keys consumed so far by the call of hmc, each with the operation that
\* consumed it: the root key by the split into chain keys, then the keys of
\* the transitions of each chain.
RECURSIVE TraceKeyUses(_)
TraceKeyUses(trace) ==
    IF trace = <<>> THEN <<>>
    ELSE TraceKeyUses(SubSeq(trace, 1, Len(trace) - 1)) \o trace[Len(trace)].keys

KeyUses ==
    (IF keyList[1] # <<>> THEN <<[key |-> opts.key, op |-> "split"]>> ELSE <<>>)
    \o Concat([c \in 1..MaxChains |-> TraceKeyUses(Trace(1, c))])

\* How many of the operations listed have consumed the key.
UseCount(uses, key) == Cardinality({k \in 1..Len(uses) : uses[k].key = key})

\* The key with which the chain c made its transition number k.
TransitionKey(c, k) == Trace(1, c)[k].keys[1].key

\* The keys the call has held: the root key, the chain keys, and the momentum
\* key, acceptance key and next key of each transition.
KeysHeld ==
    {opts.key}
    \cup {keyList[1][c] : c \in 1..Len(keyList[1])}
    \cup UNION {UNION {{momentumKey(TransitionKey(c, k)), acceptKey(TransitionKey(c, k)),
                        keyNext(TransitionKey(c, k))} :
                           k \in 1..Len(Trace(1, c))} : c \in Chains}

\* The next key of the last transition of each chain.
LastNextKeys == {chain[1][c].key : c \in {d \in Chains : Trace(1, d) # <<>>}}

\* Every key of the set has been consumed by exactly n of the operations.
EachUsed(uses, keys, n) == \A key \in keys : UseCount(uses, key) = n

\* No two of the operations have consumed the same key.
NoKeyUsedTwice(uses) == \A k, j \in 1..Len(uses) : uses[k].key = uses[j].key => k = j

\* C20: when hmc has returned, every key it held (root key, chain keys, each
\* transition's momentum key, acceptance key and next key) has been consumed
\* by exactly one split or draw.
KeysUsedExactlyOnce ==
    hmcPc[1] = "returned" => EachUsed(KeyUses, KeysHeld, 1)

\* C20, amended: no key is ever consumed twice; when hmc has returned, every
\* key it held has been consumed exactly once but the next key of the last
\* transition of each chain, which is never consumed.
KeysUsedAtMostOnce ==
    /\ NoKeyUsedTwice(KeyUses)
    /\ hmcPc[1] = "returned" =>
           /\ EachUsed(KeyUses, KeysHeld \ LastNextKeys, 1)
           /\ EachUsed(KeyUses, LastNextKeys, 0)

\* A call of several chains of several transitions each over several leaves
\* has returned.
KeysUsedWitness ==
    /\ hmcPc[1] = "returned"
    /\ opts.numChains >= 2
    /\ Len(opts.initialParams) >= 2
    /\ \A c \in 1..opts.numChains : Len(Trace(1, c)) >= 2
    /\ Len(KeyUses) >= 1 + 2 * 2 * 5

(***************************************************************************)
(* The reading of the mass tree                                            *)
(***************************************************************************)
\* The transitions of chain c that ran after warmup under an adapted mass
\* tree (variance + jitter, finalized at the last warmup iteration).
AdaptedTransitions(c) ==
    IF c.pc = "idle" THEN {}
    ELSE {k \in 1..Len(c.trace) : ~c.trace[k].isWarmup /\ c.trace[k].massMatrix.def}

\* The momentum drawn by transition e of the trace.
TraceMomentum(e) ==
    sampleMomentum(e.before, momentumKey(e.keys[1].key), e.massMatrix)

\* The three uses of a tree v read as the inverse mass: momentum of variance
\* 1 / v, kinetic energy 0.5 * sum(p^2 * v), position step eps * (v * p).
InverseMassMomentum(params, key, v) ==
    TreeMap2(LAMBDA n, m : FMul(n, MathSqrt(FDiv(One, m))),
             sampleMomentum(params, key, Undefined), v)

InverseMassKinetic(momentum, v) ==
    FMul(SumSeq(flattenTree(TreeMap2(LAMBDA p, m : FMul(FMul(p, p), m),
                                     momentum, v)).data),
         Half)

InverseMassPosition(q, p, stepSize, v) ==
    TreeMap3(LAMBDA qLeaf, pLeaf, mLeaf : FAdd(qLeaf, FMul(FMul(mLeaf, pLeaf), stepSize)),
             q, p, v)

UsedAsInverseMass(e, p) ==
    /\ p = InverseMassMomentum(e.before, momentumKey(e.keys[1].key), e.massMatrix.v)
    /\ computeKineticEnergy(p, e.massMatrix) = InverseMassKinetic(p, e.massMatrix.v)
    /\ updatePosition(e.before, p, e.stepSize, e.massMatrix)
           = InverseMassPosition(e.before, p, e.stepSize, e.massMatrix.v)

\* C21: in every transition after warmup the adapted tree variance + jitter
\* is used as the inverse mass: the momentum has variance 1 / (variance +
\* jitter), the kinetic energy is 0.5 * sum(p^2 * (variance + jitter)) and
\* the position update adds eps * ((variance + jitter) * p).
AdaptedVarianceIsInverseMass ==
    \A c \in Chains : \A k \in AdaptedTransitions(chain[1][c]) :
        UsedAsInverseMass(chain[1][c].trace[k], TraceMomentum(chain[1][c].trace[k]))

\* The matrix M a transition runs under: the mass tree, or ones when the
\* tree is undefined.
MassOf(e) ==
    IF e.massMatrix.def THEN e.massMatrix.v
    ELSE TreeMap1(LAMBDA x : One, e.before)

\* The three uses of a tree m read as the mass M, on the momentum p of
\* transition e drawn from the standard normal tree z.
UsedAsMass(e, z, p, m) ==
    /\ p = TreeMap2(LAMBDA n, mLeaf : FMul(n, MathSqrt(mLeaf)), z, m)
    /\ e.currentH =
           FAdd(FNeg(LogProb(opts.target, e.before)),
                FMul(SumSeq(flattenTree(
                         TreeMap2(LAMBDA pLeaf, mLeaf : FDiv(FMul(pLeaf, pLeaf), mLeaf),
                                  p, m)).data),
                     Half))
    /\ updatePosition(e.before, p, e.stepSize, e.massMatrix) =
           TreeMap3(LAMBDA qLeaf, pLeaf, mLeaf :
                        FAdd(qLeaf, FMul(FDiv(pLeaf, mLeaf), e.stepSize)),
                    e.before, p, m)

\* The transition e has read its mass tree as the mass M.
TransitionUsesMass(e) ==
    UsedAsMass(e, sampleMomentum(e.before, momentumKey(e.keys[1].key), Undefined),
               TraceMomentum(e), MassOf(e))

\* The transition chain c has run last has read its mass tree as the mass M
\* (every transition is the last one in the state it leads to).
MassReadOnce(c) ==
    \/ c.pc = "idle"
    \/ c.trace = <<>>
    \/ TransitionUsesMass(c.trace[Len(c.trace)])

\* C30: in every transition of warmup and of sampling the mass tree stands
\* for one matrix M in all its uses: the momentum is the standard normal
\* draw times sqrt(M), the kinetic energy in the Hamiltonian is
\* 0.5 * sum(p^2 / M), and the position update adds eps * p / M.
MassTreeReadAsMass == \A c \in Chains : MassReadOnce(chain[1][c])

\* A transition after warmup has run under an adapted mass tree that is
\* not the identity, with a momentum that is not zero.
MassTreeReadAsMassWitness ==
    \E c \in Chains : \E k \in AdaptedTransitions(chain[1][c]) :
        /\ MassOf(chain[1][c].trace[k]) # TreeMap1(LAMBDA x : One, chain[1][c].trace[k].before)
        /\ \E i \in 1..Len(chain[1][c].trace[k].before) :
               \E j \in 1..Len(chain[1][c].trace[k].before[i].v) :
                   TraceMomentum(chain[1][c].trace[k])[i].v[j] # Zero

(***************************************************************************)
(* The finalization of the mass matrix                                     *)
(***************************************************************************)
\* Every element of tree t is zero.
TreeAllZero(t) == \A i \in 1..Len(t) : \A j \in 1..Len(t[i].v) : t[i].v[j] = Zero

\* The mass tree m is the identity: undefined, or ones.
IsIdentityMass(m, params) == ~m.def \/ m.v = TreeMap1(LAMBDA x : One, params)

\* Chain c has finished a warmup that adapted the mass matrix over at least
\* two positions whose variance is zero in every element.
ZeroVarianceFinalized(c) ==
    /\ c.pc # "idle" /\ opts.adaptMassMatrix
    /\ opts.numWarmup >= 1 /\ c.iter >= opts.numWarmup
    /\ c.welfordCount > 1 /\ c.welfordM2.def /\ TreeAllZero(c.welfordM2.v)

\* C22: a chain whose Welford variance is zero in every element when the
\* warmup ends runs on with the identity mass matrix.
ZeroVarianceFallsBackToIdentity ==
    \A c \in Chains :
        ZeroVarianceFinalized(chain[1][c]) =>
            IsIdentityMass(chain[1][c].massMatrix, chain[1][c].currentParams)

\* Chain c has ended its warmup with fewer than two positions observed by
\* the Welford accumulators.
FewPositionsObserved(c) ==
    c.pc # "idle" /\ c.iter >= opts.numWarmup /\ c.welfordCount < 2

\* C23: a chain whose warmup has ended with fewer than two positions
\* observed (numWarmup < 2, or adaptMassMatrix = false) runs on with the
\* identity mass matrix, and the only error it can raise is the one of a
\* call that collects no sample.
FewPositionsGiveIdentity ==
    \A c \in Chains :
        FewPositionsObserved(chain[1][c]) =>
            /\ (opts.numWarmup < 2 \/ ~opts.adaptMassMatrix)
            /\ IsIdentityMass(chain[1][c].massMatrix, chain[1][c].currentParams)
            /\ \A k \in 1..Len(chain[1][c].trace) :
                   ~chain[1][c].trace[k].massMatrix.def
            /\ chain[1][c].pc = "threw" => opts.numSamples = 0

\* A chain that adapts the mass matrix has ended a warmup of one iteration,
\* with one position observed, and has run a transition after it.
FewPositionsGiveIdentityWitness ==
    \E c \in Chains :
        /\ FewPositionsObserved(chain[1][c])
        /\ opts.adaptMassMatrix /\ opts.numWarmup = 1
        /\ chain[1][c].welfordCount = 1
        /\ Len(chain[1][c].trace) > opts.numWarmup
        /\ chain[1][c].pc = "done"

(***************************************************************************)
(* The dual averaging of the step size                                     *)
(***************************************************************************)
\* The sum of the errors targetAcceptRate - acceptProb over the first n
\* transitions of a trace, a non-finite acceptance probability counted as 0.
RECURSIVE ErrorSum(_, _)
ErrorSum(trace, n) ==
    IF n = 0 THEN Zero
    ELSE FAdd(ErrorSum(trace, n - 1),
              FSub(opts.targetAcceptRate,
                   IF IsFinite(trace[n].acceptProb) THEN trace[n].acceptProb ELSE Zero))

\* The warmup transitions chain c has run so far.
WarmupRun(c) == IF Len(c.trace) < opts.numWarmup THEN Len(c.trace) ELSE opts.numWarmup

DualAverageFinite(c) ==
    /\ c.hSum = ErrorSum(c.trace, WarmupRun(c))
    /\ IsFinite(c.hSum) /\ IsFinite(c.logStepSize) /\ IsFinite(c.logStepSizeAvg)

CenterIsTenTimesInitialStep ==
    \A c \in Chains :
        chain[1][c].pc # "idle" =>
            chain[1][c].mu = MathLog(FMul(FInt(10), opts.initialStepSize))

(***************************************************************************)
(* src/adaptation.ts: the dual averaging state and its update, run side    *)
(* by side with the dual averaging written out in runSingleChain.          *)
(***************************************************************************)
initDualAverage(initialStepSize) ==
    [logStepSize |-> MathLog(initialStepSize),
     logStepSizeAvg |-> MathLog(initialStepSize),
     hSum |-> Zero,
     iteration |-> 0,
     mu |-> MathLog(FMul(FInt(10), initialStepSize)),
     gamma |-> Ratio(5, 100),
     t0 |-> 10,
     kappa |-> Ratio(75, 100)]

\* The state returned by an update: the log step size and its weighted
\* average follow from the new hSum.
DualAverageNextAvg(state, iter, hSum, w, logStep) ==
    [state EXCEPT !.logStepSize = logStep,
                  !.logStepSizeAvg = FAdd(FMul(w, logStep),
                                          FMul(FSub(One, w), state.logStepSizeAvg)),
                  !.hSum = hSum,
                  !.iteration = iter]

DualAverageNext(state, iter, hSum, w) ==
    DualAverageNextAvg(state, iter, hSum, w,
        FSub(state.mu, FMul(FDiv(MathSqrt(FInt(iter)), state.gamma), hSum)))

\* A faulty update: the previous hSum is not weighted by 1 - eta.
updateDualAverageUnweightedEta(state, acceptProb, targetAcceptRate, iter, eta) ==
    DualAverageNext(state, iter,
        FAdd(state.hSum, FMul(eta, FSub(targetAcceptRate, acceptProb))),
        MathPow(FInt(iter), FNeg(state.kappa)))

updateDualAverageUnweighted(state, acceptProb, targetAcceptRate) ==
    updateDualAverageUnweightedEta(state, acceptProb, targetAcceptRate, state.iteration + 1,
        FDiv(One, FInt(state.iteration + 1 + state.t0)))

\* A faulty update: the error is acceptProb - targetAcceptRate.
updateDualAverageReversedEta(state, acceptProb, targetAcceptRate, iter, eta) ==
    DualAverageNext(state, iter,
        FAdd(FMul(FSub(One, eta), state.hSum),
             FMul(eta, FSub(acceptProb, targetAcceptRate))),
        MathPow(FInt(iter), FNeg(state.kappa)))

updateDualAverageReversed(state, acceptProb, targetAcceptRate) ==
    updateDualAverageReversedEta(state, acceptProb, targetAcceptRate, state.iteration + 1,
        FDiv(One, FInt(state.iteration + 1 + state.t0)))

updateDualAverageEta(state, acceptProb, targetAcceptRate, iter, eta) ==
    DualAverageNext(state, iter,
        FAdd(FMul(FSub(One, eta), state.hSum),
             FMul(eta, FSub(targetAcceptRate, acceptProb))),
        MathPow(FInt(iter), FNeg(state.kappa)))

updateDualAverage(state, acceptProb, targetAcceptRate) ==
    updateDualAverageEta(state, acceptProb, targetAcceptRate, state.iteration + 1,
        FDiv(One, FInt(state.iteration + 1 + state.t0)))

\* The number of updates explored from an initial state.
MaxUpdates == 3

\* Initial step sizes, target acceptance rates and observed (finite)
\* acceptance probabilities.
AdaptStepSizes == {Ratio(1, 10), Half, One}
TargetRates == {Ratio(8, 10), Ratio(65, 100)}
AcceptValues == {Ratio(1, 10), Half, Ratio(95, 100), One}

\* The dual averaging locals of runSingleChain before its loop.
RunnerInit(initialStepSize) ==
    LET c == InitChain([initialParams |-> <<>>, initialStepSize |-> initialStepSize], <<0>>)
    IN  [hSum |-> c.hSum, logStepSize |-> c.logStepSize,
         logStepSizeAvg |-> c.logStepSizeAvg, mu |-> c.mu]

\* The dual averaging locals of runSingleChain after the warmup iteration
\* iter (0-based) has observed acceptProb.
RunnerStep(run, delta, iter, da) ==
    [run EXCEPT !.hSum = da.hSum, !.logStepSize = da.logStepSize,
                !.logStepSizeAvg = da.logStepSizeAvg]

RunnerUpdate(run, delta, iter, acceptProb) ==
    RunnerStep(run, delta, iter,
               DualAverageStep(run, [targetAcceptRate |-> delta], iter, acceptProb))

\* Both dual averagings observe the same acceptance probability.
DaUpdate ==
    /\ rev.pc = "adapt"
    /\ rev.state.iteration < MaxUpdates
    /\ \E a \in AcceptValues :
           rev' = [rev EXCEPT
                      !.alphas = Append(@, a),
                      !.run = RunnerUpdate(rev.run, rev.delta, rev.state.iteration, a),
                      !.state = updateDualAverage(rev.state, a, rev.delta)]
    /\ UNCHANGED <<opts, hmcPc, keyList, chainIdx, chain, chainResults, result>>

\* Two updates from the same state, one observing a lower and one a higher
\* acceptance probability.
DaCompare ==
    /\ rev.pc = "adapt"
    /\ \E lo \in AcceptValues, hi \in AcceptValues :
           /\ FLt(lo, hi)
           /\ rev' = [rev EXCEPT
                         !.pc = "compared", !.lo = lo, !.hi = hi,
                         !.lower = updateDualAverage(rev.state, lo, rev.delta),
                         !.higher = updateDualAverage(rev.state, hi, rev.delta)]
    /\ UNCHANGED <<opts, hmcPc, keyList, chainIdx, chain, chainResults, result>>

InitDualAverage ==
    /\ opts = NoOptions
    /\ InitRuns({})
    /\ rev \in {[pc |-> "adapt", eps0 |-> s, delta |-> d, alphas |-> <<>>,
                 run |-> RunnerInit(s), state |-> initDualAverage(s),
                 lo |-> Zero, hi |-> Zero,
                 lower |-> initDualAverage(s), higher |-> initDualAverage(s)] :
                   s \in AdaptStepSizes, d \in TargetRates}

NextDualAverage == DaUpdate \/ DaCompare

SpecDualAverage == InitDualAverage /\ [][NextDualAverage]_vars

\* |a - b| is at most ulps units in the last place of the larger of floor,
\* |a| and |b|.
Near(a, b, ulps, floor) ==
    /\ IsFinite(a) /\ IsFinite(b)
    /\ FLe(FAbs(FSub(a, b)),
           FMul(Fl(ulps, -Precision), MathMax(floor, MathMax(FAbs(a), FAbs(b)))))

\* The h_bar of runSingleChain after t updates: hSum / (t + t0).
RunnerHBar(run, t) == FDiv(run.hSum, FInt(t + t0))

\* C26: after any sequence of finite acceptance probabilities the h_bar of
\* runSingleChain (its running sum of the errors divided by t + t0) is the
\* hSum of updateDualAverage, and both give the same logStepSize - mu, up to
\* the rounding of the floating point operations.
RunnerRefinesDualAverage ==
    rev.pc = "adapt" =>
        /\ Near(RunnerHBar(rev.run, rev.state.iteration), rev.state.hSum, 8, Fl(1, -3))
        /\ rev.state.iteration >= 1 =>
               Near(FSub(rev.run.logStepSize, rev.run.mu),
                    FSub(rev.state.logStepSize, rev.state.mu), 16, One)

\* Both have made three updates with acceptance probabilities that differ,
\* and h_bar is not zero.
RunnerRefinesDualAverageWitness ==
    /\ rev.pc = "adapt" /\ rev.state.iteration >= 2
    /\ \E i, j \in 1..Len(rev.alphas) : rev.alphas[i] # rev.alphas[j]
    /\ rev.state.hSum # Zero
    /\ rev.run.mu # rev.state.mu

\* C27: from any dual averaging state and for a fixed target acceptance
\* rate, the update that observes the higher acceptance probability returns
\* a larger logStepSize than the update from the same state that observes
\* the lower one.
HigherAcceptLargerStep ==
    rev.pc = "compared" =>
        /\ FLt(rev.lo, rev.hi)
        /\ rev.lower = updateDualAverage(rev.state, rev.lo, rev.delta)
        /\ rev.higher = updateDualAverage(rev.state, rev.hi, rev.delta)
        /\ FLt(rev.lower.logStepSize, rev.higher.logStepSize)

\* The acceptance probabilities 0.1 and 0.95 have been compared from a state
\* that has made updates of its own.
HigherAcceptLargerStepWitness ==
    /\ rev.pc = "compared" /\ rev.state.iteration >= 2
    /\ rev.lo = Ratio(1, 10) /\ rev.hi = Ratio(95, 100)
    /\ rev.state.hSum # Zero

(***************************************************************************)
(* src/adaptation.ts: findReasonableStepSize, one loop iteration per step. *)
(***************************************************************************)
\* The largest step size of clampStepSize.
StepMax == One

\* Math.min(1, Math.max(1e-4, stepSize))
clampStepSize(stepSize) == MathMin(StepMax, MathMax(StepMin, stepSize))

\* The thresholds of the acceptance probability for doubling and halving.
DoubleAbove == Ratio(8, 10)
HalveBelow == Ratio(2, 10)

\* sampleNormalTree of src/random-utils: the key is split into the next key
\* and the key of a standard normal tree of the structure of the argument.
sampleNormalTree(key, t) ==
    [nextKey |-> RandomSplit(key, 2)[1],
     sample |-> sampleMomentum(t, RandomSplit(key, 2)[2], Undefined)]

\* Math.min(1, Math.exp(h0 - h1)) over one trajectory.
computeAcceptProbFrom(target, h0, lf, massMatrix) ==
    MathMin(One, MathExp(FSub(h0, hamiltonian(lf.q, lf.p, target, Defined(massMatrix)))))

computeAcceptProb(target, position, momentum, stepSize, numSteps, massMatrix) ==
    computeAcceptProbFrom(target,
        hamiltonian(position, momentum, target, Defined(massMatrix)),
        leapfrog(position, momentum, target, stepSize, numSteps, Defined(massMatrix)),
        massMatrix)

\* The move of one loop iteration that has observed acceptProb.
SearchMove(acceptProb, stepSize) ==
    IF FLt(DoubleAbove, acceptProb) /\ FLt(stepSize, StepMax) THEN "double"
    ELSE IF FLt(acceptProb, HalveBelow) /\ FLt(StepMin, stepSize) THEN "halve"
    ELSE "stop"

\* The locals of findReasonableStepSize after a loop iteration; moves is the
\* history of the iterations, kept for the properties.
SearchAfter(s, nextKey, acceptProb, move) ==
    [s EXCEPT !.pc = IF move = "stop" THEN "done" ELSE "search",
              !.i = IF move = "stop" THEN @ ELSE @ + 1,
              !.currentKey = nextKey,
              !.stepSize = IF move = "double" THEN clampStepSize(FMul(@, FInt(2)))
                           ELSE IF move = "halve" THEN clampStepSize(FMul(@, Half))
                           ELSE @,
              !.moves = Append(@, [acceptProb |-> acceptProb, move |-> move,
                                   stepSize |-> s.stepSize])]

SearchObserve(s, nextKey, acceptProb) ==
    SearchAfter(s, nextKey, acceptProb, SearchMove(acceptProb, s.stepSize))

SearchDraw(s, drawn) ==
    SearchObserve(s, drawn.nextKey,
        computeAcceptProb(s.target, s.position,
            TreeMap2(LAMBDA z, m : FMul(z, MathSqrt(m)), drawn.sample, s.massMatrix),
            s.stepSize, 1, s.massMatrix))

SearchLoopBody(s) == SearchDraw(s, sampleNormalTree(s.currentKey, s.massMatrix))

\* The iterations a search may run (maxIters).
MaxIters == 3

\* The calls explored.
SearchPositions ==
    { <<[name |-> "x", v |-> <<FInt(-1)>>]>>,
      <<[name |-> "x", v |-> <<Fl(1, -2)>>]>>,
      <<[name |-> "a", v |-> <<Half, FInt(-1)>>], [name |-> "b", v |-> <<Zero>>]>> }
SearchStepSizes == {Ratio(1, 10), Fl(1, -2), Half, FInt(2)}
SearchSeeds == 0..3
SearchMassKinds == {"ones", "halves"}

\* One iteration of the loop of findReasonableStepSize.
SearchIteration ==
    /\ rev.pc = "search"
    /\ rev.i < rev.maxIters
    /\ rev' = SearchLoopBody(rev)
    /\ UNCHANGED <<opts, hmcPc, keyList, chainIdx, chain, chainResults, result>>

\* The loop has run maxIters iterations: the step size is returned.
SearchExhausted ==
    /\ rev.pc = "search"
    /\ rev.i >= rev.maxIters
    /\ rev' = [rev EXCEPT !.pc = "done"]
    /\ UNCHANGED <<opts, hmcPc, keyList, chainIdx, chain, chainResults, result>>

InitSearch ==
    /\ opts = NoOptions
    /\ InitRuns({})
    /\ rev \in {[pc |-> "search", i |-> 0, maxIters |-> n, target |-> t,
                 position |-> q, massMatrix |-> MassFor(q, kind).v,
                 initialStepSize |-> s, stepSize |-> clampStepSize(s),
                 currentKey |-> RandomKey(seed), moves |-> <<>>] :
                   n \in 1..MaxIters, t \in Targets, q \in SearchPositions,
                   kind \in SearchMassKinds, s \in SearchStepSizes,
                   seed \in SearchSeeds}

NextSearch == SearchIteration \/ SearchExhausted

SpecSearch == InitSearch /\ [][NextSearch]_vars

\* Among the first n moves there is one of the given kind.
HasMoved(moves, n, kind) == \E j \in 1..n : moves[j].move = kind

\* Iteration k of a search follows the rule with the threshold 0.5: it
\* doubles only above 0.5 and only if no iteration has halved, halves only
\* below 0.5 and only if no iteration has doubled, and stops only where the
\* rule has no move left: at 0.5 or a NaN, at a change of direction, or at a
\* bound of the step size.
HalfRuleMove(moves, k) ==
    LET a == moves[k].acceptProb
    IN  CASE moves[k].move = "double" ->
                 FLt(Half, a) /\ ~HasMoved(moves, k - 1, "halve")
          [] moves[k].move = "halve" ->
                 FLt(a, Half) /\ ~HasMoved(moves, k - 1, "double")
          [] OTHER ->
                 \/ IsNaN(a) \/ a = Half
                 \/ FLt(Half, a) /\ (HasMoved(moves, k - 1, "halve")
                                      \/ ~FLt(moves[k].stepSize, StepMax))
                 \/ FLt(a, Half) /\ (HasMoved(moves, k - 1, "double")
                                      \/ ~FLt(StepMin, moves[k].stepSize))

\* C28: the search doubles the step size while the one-step acceptance
\* probability is above 0.5, halves it while it is below 0.5, and stops at
\* the first change of direction: no halving follows a doubling and no
\* doubling follows a halving.
SearchFollowsHalfRule ==
    rev.pc \in {"search", "done"} =>
        \A k \in 1..Len(rev.moves) : HalfRuleMove(rev.moves, k)

\* No halving follows a doubling and no doubling a halving.
SearchKeepsDirection ==
    rev.pc \in {"search", "done"} =>
        \A k \in 1..Len(rev.moves) :
            /\ rev.moves[k].move = "double" => ~HasMoved(rev.moves, k - 1, "halve")
            /\ rev.moves[k].move = "halve" => ~HasMoved(rev.moves, k - 1, "double")

\* C29: rhat splits every chain of N draws (N >= 4, so that each half has a
\* variance) into two sequences of exactly floor(N / 2) draws each, so all
\* 2C sequences that W and B are computed over have that length.
RhatHalvesEqualLength ==
    rev.pc = "rhat" =>
        \A k \in 1..(2 * Len(rev.draws)) :
            Len(rev.draws[(k + 1) \div 2]) >= 4 =>
                Len(SplitChains(rev.draws)[k]) = Len(rev.draws[(k + 1) \div 2]) \div 2

====
